---- MODULE Spec2Model ----
(***************************************************************************)
(* The vih interpreter: lexer (src/src/lexer.py), Pratt parser and AST     *)
(* printer (src/parser.py), tree-walking evaluator with environments and   *)
(* builtins (src/src/evaluator.py) and the command-line driver             *)
(* (src/vih.py).                                                           *)
(*                                                                         *)
(* Text is a sequence of one-character strings.  Token literals,           *)
(* identifier names and string values are such sequences too.              *)
(***************************************************************************)
EXTENDS Integers, Sequences, FiniteSets, TLC

VARIABLES
    input_string,   \* vih.py: the text handed to the Lexer
    pc,             \* position of the driver
    parser,         \* the Parser, its Lexer, and the stack of its method calls
    program,        \* parser.parse_program()
    stack,          \* the stack of the calls of the evaluator's functions
    ret,            \* what the evaluator's call that ended last returned
    heap,           \* environments, list objects, printed lines, evaluation fuel
    result,         \* eval(program, env)
    printed         \* str(program), the text the parser is run on again

vars == <<input_string, pc, parser, program, stack, ret, heap, result, printed>>

-----------------------------------------------------------------------------
(* Characters *)

Digits == {"0", "1", "2", "3", "4", "5", "6", "7", "8", "9"}

Lowercase == {"a", "b", "c", "d", "e", "f", "g", "h", "i", "j", "k", "l", "m",
              "n", "o", "p", "q", "r", "s", "t", "u", "v", "w", "x", "y", "z"}

Uppercase == {"A", "B", "C", "D", "E", "F", "G", "H", "I", "J", "K", "L", "M",
              "N", "O", "P", "Q", "R", "S", "T", "U", "V", "W", "X", "Y", "Z"}

isdigit(ch) == ch \in Digits

isalpha(ch) == ch \in Lowercase \cup Uppercase

isalnum(ch) == isalpha(ch) \/ isdigit(ch)

isspace(ch) == ch \in {" ", "\t", "\n", "\r"}

\* The text of a sequence of characters as one string.
RECURSIVE Join(_)
Join(cs) == IF cs = <<>> THEN "" ELSE Head(cs) \o Join(Tail(cs))

-----------------------------------------------------------------------------
(* Lexer: src/src/lexer.py *)

Token(token_type, literal) == [token_type |-> token_type, literal |-> literal]

EOFToken == Token("EOF", <<>>)

KEYWORDS(identifier) ==
    CASE identifier = <<"i", "f">> -> "IF"
      [] identifier = <<"e", "l", "s", "e">> -> "ELSE"
      [] identifier = <<"f", "o", "r">> -> "FOR"
      [] identifier = <<"f", "u", "n", "c">> -> "FUNC"
      [] identifier = <<"l", "e", "t">> -> "LET"
      [] identifier = <<"r", "e", "t", "u", "r", "n">> -> "RETURN"
      [] identifier = <<"t", "r", "u", "e">> -> "TRUE"
      [] identifier = <<"f", "a", "l", "s", "e">> -> "FALSE"
      [] OTHER -> "ID"

\* Lexer.ch once position is p: the character there, ' ' past the end.
ChAt(s, p) == IF p <= Len(s) THEN s[p] ELSE " "

\* Lexer._peek: the character after position p, '' at the end.
LexPeek(s, p) == IF p < Len(s) THEN s[p + 1] ELSE ""

\* Lexer._skip_whitespace: the position at which it stops.
RECURSIVE SkipWhitespace(_, _)
SkipWhitespace(s, p) ==
    IF p <= Len(s) /\ isspace(s[p]) THEN SkipWhitespace(s, p + 1) ELSE p

\* The position at which a scan from p stops: the first position past the
\* end or whose character fails to satisfy Keep.
ScanWhile(s, p, Keep(_)) ==
    LET stops == {e \in p..(Len(s) + 1) : e > Len(s) \/ ~Keep(s[e])}
    IN  CHOOSE e \in stops : \A f \in stops : e <= f

NotNewline(ch) == ch # "\n"

NotQuote(ch) == ch # "\""

IdentChar(ch) == isalnum(ch) \/ ch = "_"

Slice(s, from, to) == SubSeq(s, from, to - 1)

SingleCharTokens ==
    [ch \in {"[", "]", "(", ")", "{", "}", ";", ",", "-", "+", "*"} |->
        CASE ch = "[" -> "LBRACKET"
          [] ch = "]" -> "RBRACKET"
          [] ch = "(" -> "LPAR"
          [] ch = ")" -> "RPAR"
          [] ch = "{" -> "LCURLY"
          [] ch = "}" -> "RCURLY"
          [] ch = ";" -> "SEMICOLON"
          [] ch = "," -> "COMMA"
          [] ch = "-" -> "MINUS"
          [] ch = "+" -> "PLUS"
          [] ch = "*" -> "ASTERISK"]

\* One or two character operator starting with ch: the token of ch followed
\* by '=' when the next character is '=', the token of ch alone otherwise.
TwoCharToken(s, q, ch, double, single) ==
    IF LexPeek(s, q) = "="
    THEN [token |-> Token(double, <<ch, "=">>), position |-> q + 2]
    ELSE [token |-> Token(single, <<ch>>), position |-> q + 1]

\* Lexer.next_token with the lexer at `position` (1-based): the token and
\* the position after it.
next_token(s, position) ==
    IF position > Len(s) THEN [token |-> EOFToken, position |-> position]
    ELSE
    LET q == SkipWhitespace(s, position)
        ch == ChAt(s, q)
    IN  CASE ch \in DOMAIN SingleCharTokens ->
               [token |-> Token(SingleCharTokens[ch], <<ch>>), position |-> q + 1]
          [] ch = "/" ->
               IF LexPeek(s, q) = "/"
               THEN LET e == ScanWhile(s, q, NotNewline)
                    IN  [token |-> Token("COMMENT", Slice(s, q, e)),
                         position |-> e + 1]
               ELSE [token |-> Token("DIV", <<ch>>), position |-> q + 1]
          [] ch = "\"" ->
               LET e == ScanWhile(s, q + 1, NotQuote)
               IN  [token |-> Token("STRING", Slice(s, q + 1, e)),
                    position |-> e + 1]
          [] ch = "=" -> TwoCharToken(s, q, ch, "EQ", "EQUALS")
          [] ch = "!" -> TwoCharToken(s, q, ch, "NEQ", "NOT")
          [] ch = "<" -> TwoCharToken(s, q, ch, "LEQ", "LT")
          [] ch = ">" -> TwoCharToken(s, q, ch, "GEQ", "GT")
          [] ch = " " -> [token |-> EOFToken, position |-> q]
          [] isdigit(ch) ->
               LET e == ScanWhile(s, q, isdigit)
               IN  [token |-> Token("DIGIT", Slice(s, q, e)), position |-> e]
          [] isalpha(ch) \/ ch = "_" ->
               LET e == ScanWhile(s, q, IdentChar)
                   identifier == Slice(s, q, e)
               IN  [token |-> Token(KEYWORDS(identifier), identifier),
                    position |-> e]
          [] OTHER -> [token |-> Token("ILLEGAL", <<ch>>), position |-> q + 1]

-----------------------------------------------------------------------------
(* AST: src/parser.py.  A node is a record with its class in `type` and    *)
(* the token that anchored it in `token`.  Python's None is the node None; *)
(* a list attribute that may be None (parameters, arguments) is either     *)
(* None or SomeList(items).                                                *)

None == [type |-> "None"]

SomeList(items) == [type |-> "list", items |-> items]

IsNone(x) == x.type = "None"

Precedence(name) ==
    CASE name = "LOWEST" -> 1
      [] name = "EQUALS" -> 2
      [] name = "LESSGREATER" -> 3
      [] name = "SUM" -> 4
      [] name = "PRODUCT" -> 5
      [] name = "PREFIX" -> 6
      [] name = "CALL" -> 7
      [] name = "INDEX" -> 8

PRECEDENCES(token_type) ==
    CASE token_type \in {"PLUS", "MINUS"} -> Precedence("SUM")
      [] token_type \in {"ASTERISK", "DIV"} -> Precedence("PRODUCT")
      [] token_type \in {"EQ", "NEQ"} -> Precedence("EQUALS")
      [] token_type \in {"LT", "GT", "LEQ", "GEQ"} -> Precedence("LESSGREATER")
      [] token_type = "LPAR" -> Precedence("CALL")
      [] token_type = "LBRACKET" -> Precedence("INDEX")
      [] OTHER -> Precedence("LOWEST")

prefix_functions ==
    {"ID", "DIGIT", "FUNC", "TRUE", "FALSE", "NOT", "MINUS", "LPAR", "IF",
     "STRING", "LBRACKET"}

infix_functions ==
    {"PLUS", "MINUS", "ASTERISK", "DIV", "LT", "GT", "EQ", "NEQ", "LEQ", "GEQ",
     "LPAR", "LBRACKET"}

-----------------------------------------------------------------------------
(* Parser: src/parser.py.  The parser is the record p: its lexer, cur_token *)
(* and next_token, its errors, and, since its methods call each other       *)
(* recursively, the stack of the calls in progress.  A frame of the stack   *)
(* is a call of the method fn, which stands at `at` with the locals v.  A   *)
(* method runs to its next call of a method that may recurse, or to its     *)
(* return: `ret` is what the call that ended last returned.  The methods    *)
(* that call no such method are operators.                                  *)

\* Lexer(input)
Lexer(input) == [input |-> input, position |-> 1]

\* Parser.advance_tokens
advance_tokens(p) ==
    LET read == next_token(p.lexer.input, p.lexer.position)
    IN  [p EXCEPT !.cur_token = p.next_token,
                  !.next_token = read.token,
                  !.lexer.position = read.position]

\* Parser(lexer), about to run parse_program
Parser(lexer) ==
    advance_tokens(advance_tokens(
        [lexer |-> lexer, cur_token |-> EOFToken, next_token |-> EOFToken,
         errors |-> <<>>, hung |-> FALSE, ret |-> None,
         stack |-> <<[fn |-> "parse_program", at |-> "start", v |-> <<>>]>>]))

cur_token_is(p, tt) == p.cur_token.token_type = tt

peek_token_is(p, tt) == p.next_token.token_type = tt

\* parse_infix_expression parsing its right operand at the lowest
\* precedence: operators would group to the right.
CurLowest(p) == Precedence("LOWEST")

cur_precedence(p) == PRECEDENCES(p.cur_token.token_type)

peek_precedence(p) == PRECEDENCES(p.next_token.token_type)

\* self.errors.append(msg)
AddError(p, msg) == [p EXCEPT !.errors = Append(@, msg)]

peek_error(p, tt) ==
    AddError(p, "Expected next token to be TokenType." \o tt
                \o ", got TokenType." \o p.next_token.token_type \o ".")

\* Parser._expect_peek: what it returns, and the parser it leaves.
expect_peek(p, tt) ==
    IF peek_token_is(p, tt) THEN [ok |-> TRUE, p |-> advance_tokens(p)]
    ELSE [ok |-> FALSE, p |-> peek_error(p, tt)]

\* `if self._peek_token_is(TokenType.SEMICOLON): self.advance_tokens()`
SkipSemicolon(p) ==
    IF peek_token_is(p, "SEMICOLON") THEN advance_tokens(p) ELSE p

\* str(Token)
TokenStr(tok) == "{" \o tok.token_type \o ":'" \o Join(tok.literal) \o "'}"

DigitValue(ch) == CHOOSE d \in 0..9 : ToString(d) = ch

\* int(literal) of a string of digits
RECURSIVE ParseInt(_)
ParseInt(cs) ==
    IF cs = <<>> THEN 0
    ELSE 10 * ParseInt(SubSeq(cs, 1, Len(cs) - 1)) + DigitValue(cs[Len(cs)])

parse_identifier(p) ==
    [type |-> "Identifier", token |-> p.cur_token, value |-> p.cur_token.literal]

parse_integer_literal(p) ==
    [type |-> "IntegerLiteral", token |-> p.cur_token,
     ivalue |-> ParseInt(p.cur_token.literal)]

parse_boolean(p) ==
    [type |-> "Boolean", token |-> p.cur_token,
     bvalue |-> (p.cur_token.literal = <<"t", "r", "u", "e">>)]

parse_string(p) ==
    [type |-> "StringLiteral", token |-> p.cur_token,
     value |-> p.cur_token.literal]

\* The frame on top of the stack: the call that runs.
Top(frames) == frames[Len(frames)]

Pop(frames) == SubSeq(frames, 1, Len(frames) - 1)

\* `return node` of the call on top.
Return(p, node) == [p EXCEPT !.stack = Pop(@), !.ret = node]

\* The call on top calls self.fn(arg): it will resume at `at` with the
\* locals v, once the call has returned.
Call(p, at, v, fn, arg) ==
    [p EXCEPT !.stack = Pop(@) \o <<[fn |-> Top(p.stack).fn, at |-> at, v |-> v],
                                    [fn |-> fn, at |-> "start", v |-> arg]>>]

\* The call on top goes on at `at` with the locals v.
Goto(p, at, v) ==
    [p EXCEPT !.stack = Pop(@) \o <<[fn |-> Top(p.stack).fn, at |-> at, v |-> v]>>]

\* parse_statement: the method it calls and whose result it returns.
parse_statement(p) ==
    CASE p.cur_token.token_type = "LET" -> "parse_let_statement"
      [] p.cur_token.token_type = "RETURN" -> "parse_return_statement"
      [] p.cur_token.token_type = "FOR" -> "parse_for_statement"
      [] OTHER -> "parse_expression_statement"

\* `if stmt is not None: statements.append(stmt)`
AppendStatement(statements, stmt) ==
    IF IsNone(stmt) THEN statements ELSE Append(statements, stmt)

\* parse_program: the while loop, entered at "start" and again at "stmt"
\* with the statement that parse_statement returned.
parse_program(p, f) ==
    LET token == IF f.at = "start" THEN p.cur_token ELSE f.v.token
        statements == IF f.at = "start" THEN <<>>
                      ELSE AppendStatement(f.v.statements, p.ret)
        q == IF f.at = "start" THEN p ELSE advance_tokens(p)
    IN  IF cur_token_is(q, "EOF")
        THEN Return(q, [type |-> "Program", token |-> token,
                        statements |-> statements])
        ELSE Call(q, "stmt", [token |-> token, statements |-> statements],
                  parse_statement(q), <<>>)

parse_let_statement(p, f) ==
    CASE f.at = "start" ->
           LET e1 == expect_peek(p, "ID")
               e2 == expect_peek(e1.p, "EQUALS")
           IN  IF ~e1.ok THEN Return(e1.p, None)
               ELSE IF ~e2.ok THEN Return(e2.p, None)
               ELSE Call(advance_tokens(e2.p), "value",
                         [token |-> p.cur_token, name |-> parse_identifier(e1.p)],
                         "parse_expression", Precedence("LOWEST"))
      [] f.at = "value" ->
           Return(SkipSemicolon(p),
                  [type |-> "LetStatement", token |-> f.v.token,
                   name |-> f.v.name, value |-> p.ret])

parse_return_statement(p, f) ==
    CASE f.at = "start" ->
           Call(advance_tokens(p), "return_value", [token |-> p.cur_token],
                "parse_expression", Precedence("LOWEST"))
      [] f.at = "return_value" ->
           Return(SkipSemicolon(p),
                  [type |-> "ReturnStatement", token |-> f.v.token,
                   return_value |-> p.ret])

parse_for_statement(p, f) ==
    CASE f.at = "start" ->
           LET e == expect_peek(p, "LPAR")
           IN  IF ~e.ok THEN Return(e.p, None)
               ELSE Goto(e.p, "counter", [token |-> p.cur_token])
      [] f.at = "counter" ->
           LET e == expect_peek(p, "ID")
           IN  IF ~e.ok THEN Return(e.p, None)
               ELSE Goto(e.p, "equals", [token |-> f.v.token,
                                         counter |-> parse_identifier(e.p)])
      [] f.at = "equals" ->
           LET e == expect_peek(p, "EQUALS")
           IN  IF ~e.ok THEN Return(e.p, None)
               ELSE Call(advance_tokens(e.p), "initial_value", f.v,
                         "parse_expression", Precedence("LOWEST"))
      [] f.at = "initial_value" ->
           Call(advance_tokens(advance_tokens(p)), "condition",
                [token |-> f.v.token, counter |-> f.v.counter,
                 initial_value |-> p.ret],
                "parse_expression", Precedence("LOWEST"))
      [] f.at = "condition" ->
           IF IsNone(p.ret)
           THEN Return(AddError(p, "Couldn't parse condition of the for loop"),
                       None)
           ELSE Call(advance_tokens(advance_tokens(p)), "update_rule",
                     [token |-> f.v.token, counter |-> f.v.counter,
                      initial_value |-> f.v.initial_value,
                      condition |-> p.ret],
                     "parse_let_statement", <<>>)
      [] f.at = "update_rule" ->
           LET e == expect_peek(p, "RPAR")
           IN  IF IsNone(p.ret)
               THEN Return(AddError(p, "Couldn't parse update rule of the for loop"),
                           None)
               ELSE IF ~e.ok THEN Return(e.p, None)
               ELSE Goto(e.p, "block",
                         [token |-> f.v.token, counter |-> f.v.counter,
                          initial_value |-> f.v.initial_value,
                          condition |-> f.v.condition, update_rule |-> p.ret])
      [] f.at = "block" ->
           LET e == expect_peek(p, "LCURLY")
           IN  IF ~e.ok THEN Return(e.p, None)
               ELSE Call(e.p, "body", f.v, "parse_block_statement", <<>>)
      [] f.at = "body" ->
           Return(p, [type |-> "ForStatement", token |-> f.v.token,
                      counter |-> f.v.counter,
                      initial_value |-> f.v.initial_value,
                      condition |-> f.v.condition,
                      update_rule |-> f.v.update_rule, body |-> p.ret])

\* parse_block_statement: the while loop is entered at "start" and again at
\* "stmt".  With the current token EOF the loop cannot end, since no
\* statement parses and advance_tokens leaves EOF in place: the parser hangs.
parse_block_statement(p, f) ==
    LET opened == IF cur_token_is(p, "LCURLY") THEN p
                  ELSE AddError(p, "Expected '{' at the beginning of a block statement.")
        q == advance_tokens(IF f.at = "start" THEN opened ELSE p)
        token == IF f.at = "start" THEN q.cur_token ELSE f.v.token
        statements == IF f.at = "start" THEN <<>>
                      ELSE AppendStatement(f.v.statements, p.ret)
    IN  IF cur_token_is(q, "RCURLY")
        THEN Return(SkipSemicolon(q),
                    [type |-> "BlockStatement", token |-> token,
                     statements |-> statements])
        ELSE IF cur_token_is(q, "EOF") THEN [q EXCEPT !.hung = TRUE]
        ELSE Call(q, "stmt", [token |-> token, statements |-> statements],
                  parse_statement(q), <<>>)

parse_expression_statement(p, f) ==
    CASE f.at = "start" ->
           Call(p, "expression", [token |-> p.cur_token],
                "parse_expression", Precedence("LOWEST"))
      [] f.at = "expression" ->
           Return(SkipSemicolon(p),
                  [type |-> "ExpressionStatement", token |-> f.v.token,
                   expression |-> p.ret])

\* prefix_functions: the methods that call parse_expression or a block.
PrefixMethod(tt) ==
    CASE tt = "FUNC" -> "parse_function_literal"
      [] tt \in {"NOT", "MINUS"} -> "parse_prefix_expression"
      [] tt = "LPAR" -> "parse_grouped_expression"
      [] tt = "IF" -> "parse_if_expression"
      [] tt = "LBRACKET" -> "parse_list_literal"

\* prefix_functions: the methods that only read the current token.
PrefixLeaf(p) ==
    CASE p.cur_token.token_type = "ID" -> parse_identifier(p)
      [] p.cur_token.token_type = "DIGIT" -> parse_integer_literal(p)
      [] p.cur_token.token_type \in {"TRUE", "FALSE"} -> parse_boolean(p)
      [] p.cur_token.token_type = "STRING" -> parse_string(p)

InfixMethod(tt) ==
    CASE tt = "LPAR" -> "parse_call_expression"
      [] tt = "LBRACKET" -> "parse_index_expression"
      [] OTHER -> "parse_infix_expression"

\* The while loop of parse_expression, entered with left_exp.
InfixLoop(p, precedence, left_exp) ==
    IF ~peek_token_is(p, "SEMICOLON") /\ precedence < peek_precedence(p)
    THEN IF p.next_token.token_type \notin infix_functions
         THEN Return(p, left_exp)
         ELSE Call(advance_tokens(p), "infix", precedence,
                   InfixMethod(p.next_token.token_type), left_exp)
    ELSE Return(p, left_exp)

\* parse_expression(precedence): precedence is the local v.
parse_expression(p, f) ==
    CASE f.at = "start" ->
           IF p.cur_token.token_type \notin prefix_functions
           THEN Return(AddError(p, "No prefix parser function for "
                                   \o TokenStr(p.cur_token)), None)
           ELSE IF p.cur_token.token_type \in {"ID", "DIGIT", "TRUE", "FALSE",
                                               "STRING"}
           THEN InfixLoop(p, f.v, PrefixLeaf(p))
           ELSE Call(p, "prefix", f.v, PrefixMethod(p.cur_token.token_type), <<>>)
      [] f.at \in {"prefix", "infix"} -> InfixLoop(p, f.v, p.ret)

parse_prefix_expression(p, f) ==
    CASE f.at = "start" ->
           Call(advance_tokens(p), "right", [token |-> p.cur_token],
                "parse_expression", Precedence("PREFIX"))
      [] f.at = "right" ->
           Return(p, [type |-> "PrefixExpression", token |-> f.v.token,
                      operator |-> f.v.token.literal, right |-> p.ret])

\* parse_infix_expression(left_expr)
parse_infix_expression(p, f) ==
    CASE f.at = "start" ->
           Call(advance_tokens(p), "right",
                [token |-> p.cur_token, left |-> f.v],
                "parse_expression", cur_precedence(p))
      [] f.at = "right" ->
           Return(p, [type |-> "InfixExpression", token |-> f.v.token,
                      left |-> f.v.left, operator |-> f.v.token.literal,
                      right |-> p.ret])

parse_grouped_expression(p, f) ==
    CASE f.at = "start" ->
           Call(advance_tokens(p), "expr", <<>>,
                "parse_expression", Precedence("LOWEST"))
      [] f.at = "expr" ->
           LET e == expect_peek(p, "RPAR")
           IN  IF ~e.ok THEN Return(e.p, None) ELSE Return(e.p, p.ret)

parse_if_expression(p, f) ==
    CASE f.at = "start" ->
           LET e1 == expect_peek(p, "LPAR")
           IN  IF ~e1.ok THEN Return(e1.p, None)
               ELSE Call(advance_tokens(e1.p), "condition",
                         [token |-> p.cur_token],
                         "parse_expression", Precedence("LOWEST"))
      [] f.at = "condition" ->
           LET e2 == expect_peek(p, "RPAR")
           IN  IF ~e2.ok THEN Return(e2.p, None)
               ELSE Call(advance_tokens(e2.p), "consequence",
                         [token |-> f.v.token, condition |-> p.ret],
                         "parse_block_statement", <<>>)
      [] f.at = "consequence" ->
           IF peek_token_is(p, "ELSE")
           THEN Call(advance_tokens(advance_tokens(p)), "alternative",
                     [token |-> f.v.token, condition |-> f.v.condition,
                      consequence |-> p.ret],
                     "parse_block_statement", <<>>)
           ELSE Return(p, [type |-> "IfExpression", token |-> f.v.token,
                           condition |-> f.v.condition,
                           consequence |-> p.ret, alternative |-> None])
      [] f.at = "alternative" ->
           Return(p, [type |-> "IfExpression", token |-> f.v.token,
                      condition |-> f.v.condition,
                      consequence |-> f.v.consequence, alternative |-> p.ret])

\* parse_index_expression(collection)
parse_index_expression(p, f) ==
    CASE f.at = "start" ->
           Call(advance_tokens(p), "idx",
                [token |-> p.cur_token, collection |-> f.v],
                "parse_expression", Precedence("LOWEST"))
      [] f.at = "idx" ->
           Return(expect_peek(p, "RBRACKET").p,
                  [type |-> "IndexExpression", token |-> f.v.token,
                   collection |-> f.v.collection, idx |-> p.ret])

\* parse_call_expression(function)
parse_call_expression(p, f) ==
    CASE f.at = "start" ->
           Call(p, "arguments", [token |-> p.cur_token, function |-> f.v],
                "parse_expression_list", "RPAR")
      [] f.at = "arguments" ->
           Return(p, [type |-> "CallExpression", token |-> f.v.token,
                      function |-> f.v.function, arguments |-> p.ret])

\* parse_expression_list(end): the while loop is entered at "expr" with the
\* expression to append.
parse_expression_list(p, f) ==
    CASE f.at = "start" ->
           IF peek_token_is(p, f.v)
           THEN Return(advance_tokens(p), SomeList(<<>>))
           ELSE Call(advance_tokens(p), "expr", [end |-> f.v, args |-> <<>>],
                     "parse_expression", Precedence("LOWEST"))
      [] f.at = "expr" ->
           LET args == Append(f.v.args, p.ret)
               e == expect_peek(p, f.v.end)
           IN  IF peek_token_is(p, "COMMA")
               THEN Call(advance_tokens(advance_tokens(p)), "expr",
                         [end |-> f.v.end, args |-> args],
                         "parse_expression", Precedence("LOWEST"))
               ELSE IF ~e.ok THEN Return(e.p, None)
               ELSE Return(e.p, SomeList(args))

parse_list_literal(p, f) ==
    CASE f.at = "start" ->
           Call(p, "values", <<>>, "parse_expression_list", "RBRACKET")
      [] f.at = "values" ->
           IF IsNone(p.ret) THEN Return(p, None)
           ELSE Return(p, [type |-> "ListLiteral", token |-> p.cur_token,
                           elements |-> p.ret.items])

\* parse_function_parameters: the while loop is at "while"; v is `params`.
parse_function_parameters(p, f) ==
    CASE f.at = "start" ->
           IF peek_token_is(p, "RPAR")
           THEN Return(advance_tokens(p), SomeList(<<>>))
           ELSE Goto(advance_tokens(p), "identifier", <<>>)
      [] f.at = "identifier" ->
           Goto(p, "while", Append(f.v, parse_identifier(p)))
      [] f.at = "while" ->
           IF peek_token_is(p, "COMMA")
           THEN Goto(advance_tokens(advance_tokens(p)), "identifier", f.v)
           ELSE LET e == expect_peek(p, "RPAR")
                IN  Return(e.p, IF e.ok THEN SomeList(f.v) ELSE None)

parse_function_literal(p, f) ==
    CASE f.at = "start" ->
           LET e == expect_peek(p, "LPAR")
           IN  IF ~e.ok THEN Return(e.p, None)
               ELSE Call(e.p, "parameters", [token |-> p.cur_token],
                         "parse_function_parameters", <<>>)
      [] f.at = "parameters" ->
           LET e == expect_peek(p, "LCURLY")
           IN  IF ~e.ok THEN Return(e.p, None)
               ELSE Call(e.p, "body",
                         [token |-> f.v.token, parameters |-> p.ret],
                         "parse_block_statement", <<>>)
      [] f.at = "body" ->
           Return(p, [type |-> "FunctionLiteral", token |-> f.v.token,
                      parameters |-> f.v.parameters, body |-> p.ret])

\* One step of the parser: the call on top of the stack runs to its next
\* call or to its return.
ParserRun(p) ==
    LET f == Top(p.stack)
    IN  CASE f.fn = "parse_program" -> parse_program(p, f)
          [] f.fn = "parse_let_statement" -> parse_let_statement(p, f)
          [] f.fn = "parse_return_statement" -> parse_return_statement(p, f)
          [] f.fn = "parse_for_statement" -> parse_for_statement(p, f)
          [] f.fn = "parse_block_statement" -> parse_block_statement(p, f)
          [] f.fn = "parse_expression_statement" ->
               parse_expression_statement(p, f)
          [] f.fn = "parse_expression" -> parse_expression(p, f)
          [] f.fn = "parse_prefix_expression" -> parse_prefix_expression(p, f)
          [] f.fn = "parse_infix_expression" -> parse_infix_expression(p, f)
          [] f.fn = "parse_grouped_expression" -> parse_grouped_expression(p, f)
          [] f.fn = "parse_if_expression" -> parse_if_expression(p, f)
          [] f.fn = "parse_index_expression" -> parse_index_expression(p, f)
          [] f.fn = "parse_call_expression" -> parse_call_expression(p, f)
          [] f.fn = "parse_expression_list" -> parse_expression_list(p, f)
          [] f.fn = "parse_list_literal" -> parse_list_literal(p, f)
          [] f.fn = "parse_function_literal" -> parse_function_literal(p, f)
          [] f.fn = "parse_function_parameters" ->
               parse_function_parameters(p, f)

-----------------------------------------------------------------------------
(* Printer: the __str__ methods of the AST classes, src/parser.py *)

Chars_None == <<"N", "o", "n", "e">>

Chars_ERROR == <<"E", "R", "R", "O", "R">>

\* str(n) of a non-negative int
RECURSIVE IntStr(_)
IntStr(n) ==
    IF n < 10 THEN <<ToString(n)>> ELSE IntStr(n \div 10) \o <<ToString(n % 10)>>

\* sep.join(parts)
RECURSIVE JoinWith(_, _)
JoinWith(sep, parts) ==
    IF parts = <<>> THEN <<>>
    ELSE IF Len(parts) = 1 THEN parts[1]
    ELSE parts[1] \o sep \o JoinWith(sep, Tail(parts))

RECURSIVE Str(_)
Str(node) ==
    LET StrAll(nodes) == [i \in DOMAIN nodes |-> Str(nodes[i])]
        t == node.type
    IN  CASE t = "None" -> Chars_None
          [] t = "Program" -> JoinWith(<<" ">>, StrAll(node.statements))
          [] t = "ExpressionStatement" -> Str(node.expression) \o <<";">>
          [] t = "LetStatement" ->
               node.token.literal \o <<" ">> \o Str(node.name) \o <<" ", "=", " ">>
               \o Str(node.value) \o <<";">>
          [] t = "ReturnStatement" ->
               node.token.literal \o <<" ">> \o Str(node.return_value) \o <<";">>
          [] t = "ForStatement" ->
               <<"f", "o", "r", "(">> \o node.counter.value \o <<",", " ">>
               \o Str(node.condition) \o <<",", " ">> \o Str(node.update_rule)
               \o <<")">>
          [] t = "BlockStatement" -> JoinWith(<<" ">>, StrAll(node.statements))
          [] t = "Identifier" -> node.value
          [] t = "IntegerLiteral" -> IntStr(node.ivalue)
          [] t = "Boolean" ->
               IF node.bvalue THEN <<"T", "r", "u", "e">>
               ELSE <<"F", "a", "l", "s", "e">>
          [] t = "StringLiteral" -> <<"\"">> \o node.value \o <<"\"">>
          [] t = "ListLiteral" ->
               <<"[">> \o JoinWith(<<",", " ">>, StrAll(node.elements)) \o <<"]">>
          [] t = "FunctionLiteral" ->
               LET params == IF IsNone(node.parameters) \/ node.parameters.items = <<>>
                             THEN Chars_ERROR
                             ELSE JoinWith(<<",", " ">>, StrAll(node.parameters.items))
               IN  <<"f", "u", "n", "c", "(">> \o params \o <<")", " ">>
                   \o Str(node.body)
          [] t = "PrefixExpression" ->
               <<"(">> \o node.operator \o Str(node.right) \o <<")">>
          [] t = "InfixExpression" ->
               <<"(">> \o Str(node.left) \o <<" ">> \o node.operator \o <<" ">>
               \o Str(node.right) \o <<")">>
          [] t = "IfExpression" ->
               <<"i", "f", " ", "(">> \o Str(node.condition) \o <<")", " ", "{">>
               \o Str(node.consequence) \o <<"}">>
               \o (IF IsNone(node.alternative) THEN <<>>
                   ELSE <<" ", "e", "l", "s", "e", " ", "{">>
                        \o Str(node.alternative) \o <<"}">>)
          [] t = "CallExpression" ->
               LET args == IF IsNone(node.arguments) \/ node.arguments.items = <<>>
                           THEN Chars_ERROR
                           ELSE JoinWith(<<",", " ">>, StrAll(node.arguments.items))
               IN  Str(node.function) \o <<"(">> \o args \o <<")">>
          [] t = "IndexExpression" ->
               Str(node.collection) \o <<"[">> \o Str(node.idx) \o <<"]">>

-----------------------------------------------------------------------------
(* Runtime values: src/src/evaluator.py.  A value is a record with its     *)
(* ObjectType in `t`.  Python's None (what eval returns for a let, a for   *)
(* and puts) is NONE, which is not the NULL singleton.  A ListObject is a  *)
(* reference into the list space of the heap, an Environment a reference   *)
(* into its frames.  An uncaught Python exception is the outcome Raise.    *)

NULL == [t |-> "NULL"]

TRUE_ == [t |-> "BOOLEAN", bvalue |-> TRUE]

FALSE_ == [t |-> "BOOLEAN", bvalue |-> FALSE]

NONE == [t |-> "None"]

IntegerObject(value) == [t |-> "INTEGER", value |-> value]

StringObject(value) == [t |-> "STRING", svalue |-> value]

ReturnObject(value) == [t |-> "RETURN_VALUE", rvalue |-> value]

FunctionObject(parameters, body, env) ==
    [t |-> "FUNCTION", parameters |-> parameters, body |-> body, env |-> env]

BuiltinObject(fn) == [t |-> "BUILTIN", fn |-> fn]

ListObject(ref) == [t |-> "LIST", ref |-> ref]

ErrorObject(msg) == [t |-> "ERROR", msg |-> msg]

Raise(exception) == [t |-> "EXCEPTION", exception |-> exception]

\* The evaluation ran out of the fuel that bounds calls and loop iterations.
Diverged == [t |-> "DIVERGED"]

is_error(obj) == obj.t = "ERROR"

IsReturn(obj) == obj.t = "RETURN_VALUE"

\* The evaluation stops here with no value: an exception, or no fuel.
Aborts == {"EXCEPTION", "DIVERGED"}

IsAbort(obj) == obj.t \in Aborts

native_bool_to_boolean_object(value) == IF value THEN TRUE_ ELSE FALSE_

\* get_type_name: otype.name, and None for None
get_type_name(expr) == expr.t

BuiltinNames ==
    {<<"l", "e", "n">>, <<"f", "i", "r", "s", "t">>, <<"l", "a", "s", "t">>,
     <<"r", "e", "s", "t">>, <<"p", "u", "s", "h">>, <<"p", "u", "t", "s">>}

-----------------------------------------------------------------------------
(* Environment and heap.  h.frames[k] is an Environment: its store and the *)
(* reference of its outer (0: None).  h.lists[r] is the elements of a      *)
(* ListObject, h.out the lines printed, h.fuel what is left of MaxFuel.    *)

MaxFuel == 8

NewEnvironment(outer) == [store |-> <<>>, outer |-> outer]

NewHeap ==
    [frames |-> <<NewEnvironment(0)>>, lists |-> <<>>, out |-> <<>>, fuel |-> MaxFuel]

\* dict.get(identifier, None) on a store, a sequence of <<key, value>> pairs
\* with distinct keys
StoreGet(store, identifier) ==
    IF \E i \in DOMAIN store : store[i][1] = identifier
    THEN store[CHOOSE i \in DOMAIN store : store[i][1] = identifier][2]
    ELSE NONE

\* store[identifier] = value
StoreSet(store, identifier, value) ==
    IF \E i \in DOMAIN store : store[i][1] = identifier
    THEN [i \in DOMAIN store |->
            IF store[i][1] = identifier THEN <<identifier, value>> ELSE store[i]]
    ELSE Append(store, <<identifier, value>>)

\* Environment.get that never looks into the outer environment
GetLocal(frames, env, identifier) == StoreGet(frames[env].store, identifier)

\* Environment.get
RECURSIVE EnvGet(_, _, _)
EnvGet(frames, env, identifier) ==
    LET value == StoreGet(frames[env].store, identifier)
    IN  IF value.t = "None" /\ frames[env].outer # 0
        THEN EnvGet(frames, frames[env].outer, identifier)
        ELSE value

\* Environment.set that rebinds the name in the outer environment when it is
\* bound there
SetWhereBound(h, env, identifier, value) ==
    LET outer == h.frames[env].outer
        target == IF outer # 0
                     /\ \E i \in DOMAIN h.frames[outer].store :
                           h.frames[outer].store[i][1] = identifier
                  THEN outer ELSE env
    IN  [h EXCEPT !.frames[target].store = StoreSet(@, identifier, value)]

\* Environment.set
EnvSet(h, env, identifier, value) ==
    [h EXCEPT !.frames[env].store = StoreSet(@, identifier, value)]

\* new_enclosed_environment enclosing the global frame whatever `outer` is
EncloseGlobal(h, outer) == [h EXCEPT !.frames = Append(@, NewEnvironment(1))]

\* new_enclosed_environment: the heap with the new frame, whose reference
\* is Len(frames)
new_enclosed_environment(h, outer) ==
    [h EXCEPT !.frames = Append(@, NewEnvironment(outer))]

-----------------------------------------------------------------------------
(* __str__ of the runtime values *)

LowerSeq == <<"a", "b", "c", "d", "e", "f", "g", "h", "i", "j", "k", "l", "m",
              "n", "o", "p", "q", "r", "s", "t", "u", "v", "w", "x", "y", "z">>

UpperSeq == <<"A", "B", "C", "D", "E", "F", "G", "H", "I", "J", "K", "L", "M",
              "N", "O", "P", "Q", "R", "S", "T", "U", "V", "W", "X", "Y", "Z">>

\* str.lower()
lower(cs) ==
    [i \in DOMAIN cs |->
        IF cs[i] \in Uppercase
        THEN LowerSeq[CHOOSE k \in DOMAIN UpperSeq : UpperSeq[k] = cs[i]]
        ELSE cs[i]]

\* str(n) of an int
SignedIntStr(n) == IF n < 0 THEN <<"-">> \o IntStr(-n) ELSE IntStr(n)

\* str(obj): the text, in pieces whose concatenation it is, or the
\* exception the call raises.  `depth` counts the nesting of the calls: a
\* list that holds itself nests without end, which Python ends with a
\* RecursionError.
StrOk(text) == [exception |-> "", text |-> text]

StrRaise(exception) == [exception |-> exception, text |-> <<>>]

RECURSIVE ObjStr(_, _, _)
ObjStr(obj, lists, depth) ==
    LET t == obj.t
    IN  CASE t = "INTEGER" -> StrOk(SignedIntStr(obj.value))
          [] t = "BOOLEAN" ->
               StrOk(IF obj.bvalue THEN <<"t", "r", "u", "e">>
                     ELSE <<"f", "a", "l", "s", "e">>)
          [] t = "STRING" -> StrOk(lower(obj.svalue))
          [] t = "RETURN_VALUE" -> ObjStr(obj.rvalue, lists, depth)
          [] t = "FUNCTION" ->
               IF IsNone(obj.parameters) THEN StrRaise("TypeError")
               ELSE StrOk(<<"f", "u", "n", "c", "(">>
                          \o JoinWith(<<",", " ">>,
                                      [i \in DOMAIN obj.parameters.items |->
                                          Str(obj.parameters.items[i])])
                          \o <<")", " ", "{", "\n">> \o Str(obj.body) \o <<"\n", "}">>)
          [] t = "BUILTIN" -> StrOk(<<"builtin function">>)
          [] t = "LIST" ->
               IF depth > Len(lists) THEN StrRaise("RecursionError")
               ELSE LET parts == [i \in DOMAIN lists[obj.ref] |->
                                     ObjStr(lists[obj.ref][i], lists, depth + 1)]
                    IN  IF \E i \in DOMAIN parts : parts[i].exception # ""
                        THEN parts[CHOOSE i \in DOMAIN parts :
                                     /\ parts[i].exception # ""
                                     /\ \A j \in 1..(i - 1) : parts[j].exception = ""]
                        ELSE StrOk(<<"[">>
                                   \o JoinWith(<<",", " ">>,
                                               [i \in DOMAIN parts |-> parts[i].text])
                                   \o <<"]">>)
          [] t = "ERROR" -> StrOk(<<"ERROR: ", obj.msg>>)
          [] t = "NULL" -> StrOk(<<"n", "u", "l", "l">>)
          [] t = "None" -> StrOk(Chars_None)

\* print(str(obj)): the heap with the line printed, or the exception
print(h, obj) ==
    LET str == ObjStr(obj, h.lists, 0)
    IN  IF str.exception # "" THEN [exception |-> str.exception, h |-> h]
        ELSE [exception |-> "", h |-> [h EXCEPT !.out = Append(@, Join(str.text))]]

-----------------------------------------------------------------------------
(* Operators: src/src/evaluator.py *)

Abs(n) == IF n < 0 THEN -n ELSE n

\* int(a / b), b # 0: the quotient truncated toward zero
TruncDiv(a, b) ==
    LET q == Abs(a) \div Abs(b)
    IN  IF (a < 0) # (b < 0) THEN -q ELSE q

\* The objects that have a `value` attribute.
HasValue(obj) == obj.t \in {"INTEGER", "BOOLEAN", "STRING", "RETURN_VALUE"}

\* Python compares int and bool values as numbers, True as 1.
IsNumber(obj) == obj.t \in {"INTEGER", "BOOLEAN"}

Number(obj) == IF obj.t = "INTEGER" THEN obj.value ELSE IF obj.bvalue THEN 1 ELSE 0

\* a is b, for the values a ReturnObject wraps: the singletons and a list
\* are themselves; any other two objects are taken to be two objects.
SameObject(a, b) ==
    /\ a.t = b.t
    /\ CASE a.t \in {"NULL", "None"} -> TRUE
         [] a.t = "BOOLEAN" -> a.bvalue = b.bvalue
         [] a.t = "LIST" -> a.ref = b.ref
         [] OTHER -> FALSE

CompareOperators == {"<", ">", "<=", ">=", "==", "!="}

NumberCompare(op, a, b) ==
    CASE op = "<" -> a < b
      [] op = ">" -> a > b
      [] op = "<=" -> a <= b
      [] op = ">=" -> a >= b
      [] op = "==" -> a = b
      [] op = "!=" -> a # b

\* left.value OP right.value of the match statement of eval_infix_expression,
\* which two Integers and two Strings never reach.
ValueCompare(op, left, right) ==
    IF ~HasValue(left) \/ ~HasValue(right) THEN Raise("AttributeError")
    ELSE IF IsNumber(left) /\ IsNumber(right)
    THEN native_bool_to_boolean_object(NumberCompare(op, Number(left), Number(right)))
    ELSE IF op \notin {"==", "!="} THEN Raise("TypeError")
    ELSE LET same == /\ IsReturn(left)
                     /\ IsReturn(right)
                     /\ SameObject(left.rvalue, right.rvalue)
         IN  native_bool_to_boolean_object(IF op = "==" THEN same ELSE ~same)

eval_integer_infix_expression(op, left, right) ==
    CASE op = "+" -> IntegerObject(left.value + right.value)
      [] op = "-" -> IntegerObject(left.value - right.value)
      [] op = "*" -> IntegerObject(left.value * right.value)
      [] op = "/" ->
           IF right.value = 0 THEN Raise("ZeroDivisionError")
           ELSE IntegerObject(TruncDiv(left.value, right.value))
      [] op \in CompareOperators ->
           native_bool_to_boolean_object(NumberCompare(op, left.value, right.value))
      [] OTHER -> ErrorObject("unknown operator: " \o get_type_name(left) \o " " \o op
                              \o " " \o get_type_name(right))

eval_infix_expression(operator, left, right) ==
    LET op == Join(operator)
    IN  IF left.t = "INTEGER" /\ right.t = "INTEGER"
        THEN eval_integer_infix_expression(op, left, right)
        ELSE IF left.t = "STRING" /\ right.t = "STRING"
        THEN IF op # "+"
             THEN ErrorObject("unknown operator: STRING " \o op \o " STRING")
             ELSE StringObject(left.svalue \o right.svalue)
        ELSE IF op \in CompareOperators THEN ValueCompare(op, left, right)
        ELSE IF left.t # right.t
        THEN ErrorObject("type mismatch: " \o get_type_name(left) \o " " \o op \o " "
                         \o get_type_name(right))
        ELSE ErrorObject("unknown operator: " \o get_type_name(left) \o " " \o op
                         \o " " \o get_type_name(right))

eval_not_operator_expression(right) ==
    IF right = TRUE_ THEN FALSE_
    ELSE IF right = FALSE_ THEN TRUE_
    ELSE IF right = NULL THEN TRUE_
    ELSE FALSE_

eval_minus_prefix_operator_expression(right) ==
    IF right.t # "INTEGER"
    THEN ErrorObject("unknown operator: -" \o get_type_name(right))
    ELSE IntegerObject(-right.value)

eval_prefix_expression(operator, right) ==
    LET op == Join(operator)
    IN  CASE op = "!" -> eval_not_operator_expression(right)
          [] op = "-" -> eval_minus_prefix_operator_expression(right)
          [] OTHER -> ErrorObject("unknown operator: " \o op \o get_type_name(right))

is_truthy(node) ==
    IF node = NULL THEN FALSE
    ELSE IF node = TRUE_ THEN TRUE
    ELSE IF node = FALSE_ THEN FALSE
    ELSE TRUE

unwrap_return_value(obj) == IF IsReturn(obj) THEN obj.rvalue ELSE obj

\* get_index counting a negative index from the end of the list
IndexFromEnd(elements, idx) ==
    IF idx.value < -Len(elements) \/ idx.value >= Len(elements)
    THEN ErrorObject("Index " \o ToString(idx.value)
                     \o " out of bounds for collection of len "
                     \o ToString(Len(elements)))
    ELSE IF idx.value < 0 THEN elements[Len(elements) + idx.value + 1]
    ELSE elements[idx.value + 1]

\* ListObject.get_index
get_index(elements, idx) ==
    IF idx.value < 0 \/ idx.value >= Len(elements)
    THEN ErrorObject("Index " \o ToString(idx.value)
                     \o " out of bounds for collection of len "
                     \o ToString(Len(elements)))
    ELSE elements[idx.value + 1]

eval_index_expression(h, collection, idx) ==
    IF collection.t = "LIST" /\ idx.t = "INTEGER"
    THEN get_index(h.lists[collection.ref], idx)
    ELSE ErrorObject("Exprected collection for indexing, got ObjectType.INTEGER")

-----------------------------------------------------------------------------
(* Builtins: src/src/evaluator.py.  Each yields its result and the heap it *)
(* leaves.                                                                 *)

E(v, h) == [v |-> v, h |-> h]

\* ListObject(elements): a new list object
NewList(h, elements) ==
    E(ListObject(Len(h.lists) + 1), [h EXCEPT !.lists = Append(@, elements)])

builtin_len(h, args) ==
    IF Len(args) # 1 THEN E(ErrorObject("Builtin function len expected one argument"), h)
    ELSE IF args[1].t = "STRING" THEN E(IntegerObject(Len(args[1].svalue)), h)
    ELSE IF args[1].t = "LIST" THEN E(IntegerObject(Len(h.lists[args[1].ref])), h)
    ELSE E(ErrorObject("Builtin function len expected type String or List"), h)

builtin_first(h, args) ==
    IF Len(args) # 1
    THEN E(ErrorObject("Builtin function first expected one argument"), h)
    ELSE IF args[1].t = "LIST"
    THEN IF Len(h.lists[args[1].ref]) < 1 THEN E(ErrorObject("List is empty"), h)
         ELSE E(h.lists[args[1].ref][1], h)
    ELSE E(ErrorObject("Builtin function first expected type List"), h)

builtin_last(h, args) ==
    IF Len(args) # 1
    THEN E(ErrorObject("Builtin function last expected one argument"), h)
    ELSE IF args[1].t = "LIST"
    THEN IF Len(h.lists[args[1].ref]) < 1 THEN E(ErrorObject("List is empty"), h)
         ELSE E(h.lists[args[1].ref][Len(h.lists[args[1].ref])], h)
    ELSE E(ErrorObject("Builtin function last expected type List"), h)

builtin_rest(h, args) ==
    IF Len(args) # 1
    THEN E(ErrorObject("Builtin function rest expected one argument"), h)
    ELSE IF args[1].t = "LIST"
    THEN IF Len(h.lists[args[1].ref]) <= 1 THEN NewList(h, <<>>)
         ELSE NewList(h, Tail(h.lists[args[1].ref]))
    ELSE E(ErrorObject("Builtin function rest expected type List"), h)

\* builtin_push that takes two arguments or more
PushTwoOrMore(h, args) ==
    IF Len(args) < 2
    THEN E(ErrorObject("Builtin function push expected two arguments"), h)
    ELSE IF args[2].t = "LIST"
    THEN E(args[2], [h EXCEPT !.lists[args[2].ref] = Append(@, args[1])])
    ELSE E(ErrorObject("Builtin function push expected first argument of type List"), h)

\* builtin_push returning a new list, the old one left as it was
PushCopy(h, args) ==
    IF Len(args) # 2
    THEN E(ErrorObject("Builtin function push expected two arguments"), h)
    ELSE IF args[2].t = "LIST"
    THEN NewList(h, Append(h.lists[args[2].ref], args[1]))
    ELSE E(ErrorObject("Builtin function push expected first argument of type List"), h)

builtin_push(h, args) ==
    IF Len(args) # 2
    THEN E(ErrorObject("Builtin function push expected two arguments"), h)
    ELSE IF args[2].t = "LIST"
    THEN E(args[2], [h EXCEPT !.lists[args[2].ref] = Append(@, args[1])])
    ELSE E(ErrorObject("Builtin function push expected first argument of type List"), h)

\* The for loop of builtin_puts.
RECURSIVE builtin_puts(_, _)
builtin_puts(h, args) ==
    IF args = <<>> THEN E(NONE, h)
    ELSE LET p == print(h, Head(args))
         IN  IF p.exception # "" THEN E(Raise(p.exception), p.h)
             ELSE builtin_puts(p.h, Tail(args))

\* function.fn(*args) of a BuiltinObject
CallBuiltin(fn, h, args) ==
    CASE fn = "len" -> builtin_len(h, args)
      [] fn = "first" -> builtin_first(h, args)
      [] fn = "last" -> builtin_last(h, args)
      [] fn = "rest" -> builtin_rest(h, args)
      [] fn = "push" -> builtin_push(h, args)
      [] fn = "puts" -> builtin_puts(h, args)

-----------------------------------------------------------------------------
(* Evaluator: src/src/evaluator.py.  The functions that evaluate a node    *)
(* call each other recursively: the machine m is the stack of the calls in *)
(* progress, `ret`, what the call that ended last returned, and the heap.  *)
(* A frame of the stack is a call of fn on (node, env), which stands at    *)
(* `at` with the locals v.  A call runs to its next call, or to its        *)
(* return.  A Python exception ends all the calls at once.                 *)

Frame(fn, node, env, v) ==
    [fn |-> fn, at |-> "start", node |-> node, env |-> env, v |-> v]

\* `return value` of the call on top; an exception raised while the value
\* was computed, or the lack of fuel, ends every call.
ReturnValue(m, value) ==
    IF value.t \in Aborts THEN [m EXCEPT !.stack = <<>>, !.ret = value]
    ELSE [m EXCEPT !.stack = Pop(@), !.ret = value]

\* The call on top makes the call `frame`: it will resume at `at` with the
\* locals v, once the call has returned.
CallEval(m, at, v, frame) ==
    [m EXCEPT !.stack = Pop(@) \o <<[Top(m.stack) EXCEPT !.at = at, !.v = v],
                                    frame>>]

\* `return f(...)`: the call `frame` takes the place of the call on top.
ReturnCall(m, frame) == [m EXCEPT !.stack = Pop(@) \o <<frame>>]

\* eval_program with ProgramReturn never true
NeverProgramReturn(result_) == FALSE

\* eval_program: `isinstance(result, ReturnObject)`
ProgramReturn(result_) == result_.t = "RETURN_VALUE"

\* eval_program with ProgramError never true
NeverProgramError(result_) == FALSE

\* eval_program: `isinstance(result, ErrorObject)`
ProgramError(result_) == result_.t = "ERROR"

\* eval_program: the for loop, entered at "start" and again at "stmt" with
\* the value of statement v; v counts the statements evaluated.
eval_program(m, f) ==
    LET evaluated == IF f.at = "start" THEN 0 ELSE f.v
        result_ == IF f.at = "start" THEN NONE ELSE m.ret
    IN  IF ProgramReturn(result_) THEN ReturnValue(m, result_.rvalue)
        ELSE IF ProgramError(result_) THEN ReturnValue(m, result_)
        ELSE IF evaluated = Len(f.node.statements) THEN ReturnValue(m, result_)
        ELSE CallEval(m, "stmt", evaluated + 1,
                      Frame("eval", f.node.statements[evaluated + 1], f.env, <<>>))

\* eval_block_statement: `isinstance(result, ReturnObject) or
\* isinstance(result, ErrorObject)`
BlockReturn(result_) == result_.t \in {"RETURN_VALUE", "ERROR"}

\* eval_block_statement evaluating its statements in a new frame enclosed
\* in env
BlockInNewFrame(m, f) ==
    LET evaluated == IF f.at = "start" THEN 0 ELSE f.v
        result_ == IF f.at = "start" THEN NONE ELSE m.ret
        h == IF f.at = "start" THEN new_enclosed_environment(m.heap, f.env)
             ELSE m.heap
        env == IF f.at = "start" THEN Len(h.frames) ELSE f.env
    IN  IF BlockReturn(result_) THEN ReturnValue(m, result_)
        ELSE IF evaluated = Len(f.node.statements) THEN ReturnValue(m, result_)
        ELSE [m EXCEPT
                !.heap = h,
                !.stack = Pop(@) \o
                    <<[Top(m.stack) EXCEPT !.at = "stmt", !.v = evaluated + 1,
                                           !.env = env],
                      Frame("eval", f.node.statements[evaluated + 1], env, <<>>)>>]

\* eval_block_statement: the for loop, as in eval_program.
eval_block_statement(m, f) ==
    LET evaluated == IF f.at = "start" THEN 0 ELSE f.v
        result_ == IF f.at = "start" THEN NONE ELSE m.ret
    IN  IF BlockReturn(result_) THEN ReturnValue(m, result_)
        ELSE IF evaluated = Len(f.node.statements) THEN ReturnValue(m, result_)
        ELSE CallEval(m, "stmt", evaluated + 1,
                      Frame("eval", f.node.statements[evaluated + 1], f.env, <<>>))

\* eval_for_statement.  The while loop evaluates the condition at "while";
\* falling out of the loop returns None.  Each iteration takes one unit of
\* fuel.
eval_for_statement(m, f) ==
    CASE f.at = "start" ->
           CallEval(m, "initial_value", <<>>,
                    Frame("eval", f.node.initial_value, f.env, <<>>))
      [] f.at = "initial_value" ->
           IF is_error(m.ret) THEN ReturnValue(m, m.ret)
           ELSE CallEval([m EXCEPT !.heap = EnvSet(@, f.env,
                                                   f.node.counter.value, m.ret)],
                         "condition", <<>>,
                         Frame("eval", f.node.condition, f.env, <<>>))
      [] f.at = "condition" ->
           IF is_error(m.ret) THEN ReturnValue(m, m.ret)
           ELSE CallEval(m, "while", <<>>,
                         Frame("eval", f.node.condition, f.env, <<>>))
      [] f.at = "while" ->
           IF ~is_truthy(m.ret) THEN ReturnValue(m, NONE)
           ELSE IF m.heap.fuel = 0 THEN ReturnValue(m, Diverged)
           ELSE CallEval([m EXCEPT !.heap.fuel = @ - 1], "evaluated", <<>>,
                         Frame("eval_block_statement", f.node.body, f.env, <<>>))
      [] f.at = "evaluated" ->
           IF is_error(m.ret) THEN ReturnValue(m, m.ret)
           ELSE CallEval(m, "update_rule", <<>>,
                         Frame("eval", f.node.update_rule, f.env, <<>>))
      [] f.at = "update_rule" ->
           CallEval(m, "while", <<>>,
                    Frame("eval", f.node.condition, f.env, <<>>))

\* The Python list that eval_expressions returns.
Values(items) == [t |-> "list", items |-> items]

\* for expr in expressions, from the last one to the first
RightToLeft(expressions, result_) ==
    expressions[Len(expressions) - Len(result_)]

\* `for expr in expressions`: the expression evaluated once `result` holds
\* the values of the ones before it.
NextExpression(expressions, result_) == expressions[Len(result_) + 1]

\* eval_expressions(expressions, env): the for loop is entered at "start"
\* and again at "evaluated" with the value of expression Len(v) + 1; v is
\* the list `result`.  Iterating over None raises TypeError.
eval_expressions(m, f) ==
    LET result_ == IF f.at = "start" THEN <<>> ELSE Append(f.v, m.ret)
    IN  IF IsNone(f.node) THEN ReturnValue(m, Raise("TypeError"))
        ELSE IF f.at = "evaluated" /\ is_error(m.ret) THEN ReturnValue(m, m.ret)
        ELSE IF Len(result_) = Len(f.node.items)
        THEN ReturnValue(m, Values(result_))
        ELSE CallEval(m, "evaluated", result_,
                      Frame("eval", NextExpression(f.node.items, result_),
                            f.env, <<>>))

\* The for loop of extend_function_env.
RECURSIVE BindParameters(_, _, _, _, _)
BindParameters(h, env, parameters, args, i) ==
    IF i > Len(parameters) THEN h
    ELSE BindParameters(EnvSet(h, env, parameters[i].value, args[i]), env,
                        parameters, args, i + 1)

\* extend_function_env: the heap with the frame of the call, which is its
\* last frame
extend_function_env(h, function, args) ==
    LET h1 == new_enclosed_environment(h, function.env)
    IN  BindParameters(h1, Len(h1.frames), function.parameters.items, args, 1)

\* apply_function testing only for too few arguments
TooFewArguments(function, args) == Len(args) < Len(function.parameters.items)

\* apply_function: `len(args) != len(function.parameters)`
ArgumentCountDiffers(function, args) ==
    Len(args) # Len(function.parameters.items)

\* apply_function(function, args): v holds both.  len(None) raises
\* TypeError.  Each call of a FunctionObject takes one unit of fuel.
apply_function(m, f) ==
    CASE f.at = "start" /\ f.v.function.t = "BUILTIN" ->
           LET called == CallBuiltin(f.v.function.fn, m.heap, f.v.args)
           IN  ReturnValue([m EXCEPT !.heap = called.h], called.v)
      [] f.at = "start" /\ f.v.function.t = "FUNCTION" ->
           IF IsNone(f.v.function.parameters)
           THEN ReturnValue(m, Raise("TypeError"))
           ELSE IF ArgumentCountDiffers(f.v.function, f.v.args)
           THEN ReturnValue(m, ErrorObject(
                    "function requires "
                    \o ToString(Len(f.v.function.parameters.items))
                    \o " parameters, got " \o ToString(Len(f.v.args))))
           ELSE IF m.heap.fuel = 0 THEN ReturnValue(m, Diverged)
           ELSE LET extended_env ==
                        extend_function_env([m.heap EXCEPT !.fuel = @ - 1],
                                            f.v.function, f.v.args)
                IN  CallEval([m EXCEPT !.heap = extended_env], "evaluated", f.v,
                             Frame("eval", f.v.function.body,
                                   Len(extended_env.frames), <<>>))
      [] f.at = "start" /\ f.v.function.t \notin {"BUILTIN", "FUNCTION"} ->
           ReturnValue(m, ErrorObject("not a function: "
                                      \o get_type_name(f.v.function)))
      [] f.at = "evaluated" -> ReturnValue(m, unwrap_return_value(m.ret))

eval_if_expression(m, f) ==
    CASE f.at = "start" ->
           CallEval(m, "condition", <<>>,
                    Frame("eval", f.node.condition, f.env, <<>>))
      [] f.at = "condition" ->
           IF is_error(m.ret) THEN ReturnValue(m, m.ret)
           ELSE IF is_truthy(m.ret)
           THEN ReturnCall(m, Frame("eval", f.node.consequence, f.env, <<>>))
           ELSE IF ~IsNone(f.node.alternative)
           THEN ReturnCall(m, Frame("eval", f.node.alternative, f.env, <<>>))
           ELSE ReturnValue(m, NULL)

\* eval(node, env): ReturnStatement
EvalReturnStatement(m, f) ==
    CASE f.at = "start" ->
           CallEval(m, "value", <<>>,
                    Frame("eval", f.node.return_value, f.env, <<>>))
      [] f.at = "value" ->
           IF is_error(m.ret) THEN ReturnValue(m, m.ret)
           ELSE ReturnValue(m, ReturnObject(m.ret))

\* eval(node, env): LetStatement, which sets the name and falls through to
\* `return None`
EvalLetStatement(m, f) ==
    CASE f.at = "start" ->
           CallEval(m, "value", <<>>, Frame("eval", f.node.value, f.env, <<>>))
      [] f.at = "value" ->
           IF is_error(m.ret) THEN ReturnValue(m, m.ret)
           ELSE ReturnValue([m EXCEPT !.heap = EnvSet(@, f.env,
                                                      f.node.name.value, m.ret)],
                            NONE)

\* eval(node, env): PrefixExpression
EvalPrefixExpression(m, f) ==
    CASE f.at = "start" ->
           CallEval(m, "right", <<>>, Frame("eval", f.node.right, f.env, <<>>))
      [] f.at = "right" ->
           IF is_error(m.ret) THEN ReturnValue(m, m.ret)
           ELSE ReturnValue(m, eval_prefix_expression(f.node.operator, m.ret))

\* eval(node, env): InfixExpression; v is `left`
EvalInfixExpression(m, f) ==
    CASE f.at = "start" ->
           CallEval(m, "left", <<>>, Frame("eval", f.node.left, f.env, <<>>))
      [] f.at = "left" ->
           IF is_error(m.ret) THEN ReturnValue(m, m.ret)
           ELSE CallEval(m, "right", m.ret,
                         Frame("eval", f.node.right, f.env, <<>>))
      [] f.at = "right" ->
           IF is_error(m.ret) THEN ReturnValue(m, m.ret)
           ELSE ReturnValue(m, eval_infix_expression(f.node.operator, f.v,
                                                     m.ret))

\* eval(node, env): Identifier
EvalIdentifier(m, f) ==
    LET value == EnvGet(m.heap.frames, f.env, f.node.value)
    IN  IF value.t # "None" THEN ReturnValue(m, value)
        ELSE IF f.node.value \in BuiltinNames
        THEN ReturnValue(m, BuiltinObject(Join(f.node.value)))
        ELSE ReturnValue(m, ErrorObject("identifier not found: "
                                        \o Join(f.node.value)))

\* eval(node, env): ListLiteral.  When eval_expressions returned an Error,
\* len(elements) raises TypeError.
EvalListLiteral(m, f) ==
    CASE f.at = "start" ->
           CallEval(m, "elements", <<>>,
                    Frame("eval_expressions", SomeList(f.node.elements), f.env,
                          <<>>))
      [] f.at = "elements" ->
           IF is_error(m.ret) THEN ReturnValue(m, Raise("TypeError"))
           ELSE LET made == NewList(m.heap, m.ret.items)
                IN  ReturnValue([m EXCEPT !.heap = made.h], made.v)

\* eval(node, env): CallExpression; v is `function`
EvalCallExpression(m, f) ==
    CASE f.at = "start" ->
           CallEval(m, "function", <<>>,
                    Frame("eval", f.node.function, f.env, <<>>))
      [] f.at = "function" ->
           IF is_error(m.ret) THEN ReturnValue(m, m.ret)
           ELSE CallEval(m, "args", m.ret,
                         Frame("eval_expressions", f.node.arguments, f.env, <<>>))
      [] f.at = "args" ->
           IF is_error(m.ret) THEN ReturnValue(m, m.ret)
           ELSE ReturnCall(m, Frame("apply_function", None, f.env,
                                    [function |-> f.v, args |-> m.ret.items]))

\* eval(node, env): IndexExpression; v is `collection`
EvalIndexExpression(m, f) ==
    CASE f.at = "start" ->
           CallEval(m, "collection", <<>>,
                    Frame("eval", f.node.collection, f.env, <<>>))
      [] f.at = "collection" ->
           IF is_error(m.ret) THEN ReturnValue(m, m.ret)
           ELSE CallEval(m, "idx", m.ret, Frame("eval", f.node.idx, f.env, <<>>))
      [] f.at = "idx" ->
           IF is_error(m.ret) THEN ReturnValue(m, m.ret)
           ELSE ReturnValue(m, eval_index_expression(m.heap, f.v, m.ret))

\* eval(node, env): the isinstance chain.  A node that is None matches no
\* class and yields None.
eval(m, f) ==
    CASE f.node.type = "Program" ->
           ReturnCall(m, Frame("eval_program", f.node, f.env, <<>>))
      [] f.node.type = "ExpressionStatement" ->
           ReturnCall(m, Frame("eval", f.node.expression, f.env, <<>>))
      [] f.node.type = "BlockStatement" ->
           ReturnCall(m, Frame("eval_block_statement", f.node, f.env, <<>>))
      [] f.node.type = "ReturnStatement" -> EvalReturnStatement(m, f)
      [] f.node.type = "ForStatement" ->
           ReturnCall(m, Frame("eval_for_statement", f.node, f.env, <<>>))
      [] f.node.type = "LetStatement" -> EvalLetStatement(m, f)
      [] f.node.type = "PrefixExpression" -> EvalPrefixExpression(m, f)
      [] f.node.type = "InfixExpression" -> EvalInfixExpression(m, f)
      [] f.node.type = "IfExpression" ->
           ReturnCall(m, Frame("eval_if_expression", f.node, f.env, <<>>))
      [] f.node.type = "IntegerLiteral" ->
           ReturnValue(m, IntegerObject(f.node.ivalue))
      [] f.node.type = "StringLiteral" ->
           ReturnValue(m, StringObject(f.node.value))
      [] f.node.type = "Boolean" ->
           ReturnValue(m, native_bool_to_boolean_object(f.node.bvalue))
      [] f.node.type = "Identifier" -> EvalIdentifier(m, f)
      [] f.node.type = "FunctionLiteral" ->
           ReturnValue(m, FunctionObject(f.node.parameters, f.node.body, f.env))
      [] f.node.type = "ListLiteral" -> EvalListLiteral(m, f)
      [] f.node.type = "CallExpression" -> EvalCallExpression(m, f)
      [] f.node.type = "IndexExpression" -> EvalIndexExpression(m, f)
      [] f.node.type = "None" -> ReturnValue(m, NONE)

\* One step of the evaluator: the call on top of the stack runs to its next
\* call or to its return.
EvalRun(m) ==
    LET f == Top(m.stack)
    IN  CASE f.fn = "eval" -> eval(m, f)
          [] f.fn = "eval_program" -> eval_program(m, f)
          [] f.fn = "eval_block_statement" -> eval_block_statement(m, f)
          [] f.fn = "eval_for_statement" -> eval_for_statement(m, f)
          [] f.fn = "eval_expressions" -> eval_expressions(m, f)
          [] f.fn = "apply_function" -> apply_function(m, f)
          [] f.fn = "eval_if_expression" -> eval_if_expression(m, f)

-----------------------------------------------------------------------------
(* Programs: the texts that the driver is run on.  A family is built from  *)
(* the pieces named below and covers every combination of its parts.  The  *)
(* comment above a piece is its text.                                      *)

\* The largest integer literal that the families enumerate, besides the 3
\* and 5 of the documented examples.
MaxInt == 1

\* The longest sequence of statements drawn from StatementPool.
MaxStatements == 2

\* The largest number of arguments handed to a builtin.
MaxArgs == 3

\* The deepest nesting of if-blocks around a return.
MaxDepth == 3

IntValues == (0 .. MaxInt) \cup {3, 5}

\* All sequences of at most n members of S.
RECURSIVE SeqsUpTo(_, _)
SeqsUpTo(S, n) ==
    IF n = 0 THEN {<<>>}
    ELSE LET shorter == SeqsUpTo(S, n - 1)
         IN  shorter \cup {Append(s, x) : s \in shorter, x \in S}

Sep == <<";", " ">>

Comma == <<",", " ">>

\* true
TrueOperand == <<"t", "r", "u", "e">>
\* "a"
StringOperand == <<"\"", "a", "\"">>
\* [1]
ListOperand == <<"[", "1", "]">>
\* (if (false) { 1 })
NullOperand ==
    <<"(", "i", "f", " ", "(", "f", "a", "l", "s", "e", ")", " ", "{", " ",
    "1", " ", "}", ")">>
\* len
BuiltinOperand == <<"l", "e", "n">>
\* func(x) { x }
FunctionOperand ==
    <<"f", "u", "n", "c", "(", "x", ")", " ", "{", " ", "x", " ", "}">>
\* puts()
NoneOperand == <<"p", "u", "t", "s", "(", ")">>

\* Expressions of every type of value: Integer, Boolean, String, List, Null,
\* Builtin, Function, and the None that puts returns.
Operands ==
    {IntStr(n) : n \in IntValues}
    \cup {TrueOperand, StringOperand, ListOperand, NullOperand, BuiltinOperand,
          FunctionOperand, NoneOperand}

InfixOperators ==
    {<<"+">>, <<"-">>, <<"*">>, <<"/">>, <<"<">>, <<">">>, <<"<", "=">>,
     <<">", "=">>, <<"=", "=">>, <<"!", "=">>}

\* Statements after the first one: a binding, a print, a list mutation.
\* ; let b = 1; puts(b); push(1, [2])
Continuation ==
    <<";", " ", "l", "e", "t", " ", "b", " ", "=", " ", "1", ";", " ", "p",
    "u", "t", "s", "(", "b", ")", ";", " ", "p", "u", "s", "h", "(", "1", ",",
    " ", "[", "2", "]", ")">>

\* `L op R` as the first statement of a program.
InfixSources ==
    {l \o <<" ">> \o op \o <<" ">> \o r \o Continuation :
        l \in Operands, op \in InfixOperators, r \in Operands}

\* 5
ValueStatement == <<"5">>
\* return 7
ReturnSeven == <<"r", "e", "t", "u", "r", "n", " ", "7">>
\* let x = 1
LetX == <<"l", "e", "t", " ", "x", " ", "=", " ", "1">>
\* x
ReadX == <<"x">>
\* puts(2)
PutsTwo == <<"p", "u", "t", "s", "(", "2", ")">>
\* nope
UnboundName == <<"n", "o", "p", "e">>
\* return if (true) { return 1 }
ReturnOfReturn ==
    <<"r", "e", "t", "u", "r", "n", " ", "i", "f", " ", "(", "t", "r", "u",
    "e", ")", " ", "{", " ", "r", "e", "t", "u", "r", "n", " ", "1", " ",
    "}">>
\* if (true) { return 3 }
ReturnInIf ==
    <<"i", "f", " ", "(", "t", "r", "u", "e", ")", " ", "{", " ", "r", "e",
    "t", "u", "r", "n", " ", "3", " ", "}">>
\* push(1, [2])
PushStatement ==
    <<"p", "u", "s", "h", "(", "1", ",", " ", "[", "2", "]", ")">>

\* Top-level statements: a value, returns, a binding and its use, a print,
\* an Error, a return whose expression executes a return, a list mutation.
StatementPool ==
    {ValueStatement, ReturnSeven, LetX, ReadX, PutsTwo, UnboundName,
     ReturnOfReturn, ReturnInIf, PushStatement}

StatementSources ==
    {JoinWith(Sep, ss) : ss \in SeqsUpTo(StatementPool, MaxStatements) \ {<<>>}}

\* let a = [1]; 
ListPrelude ==
    <<"l", "e", "t", " ", "a", " ", "=", " ", "[", "1", "]", ";", " ">>

BuiltinArguments == {<<"a">>, <<"1">>, <<"\"", "s", "\"">>}

\* A call of a builtin with 0 .. MaxArgs arguments, after a list is bound.
BuiltinCallSource(name, args) ==
    ListPrelude \o name \o <<"(">> \o JoinWith(Comma, args) \o <<")">>

BuiltinCallSources ==
    {BuiltinCallSource(name, args) :
        name \in BuiltinNames, args \in SeqsUpTo(BuiltinArguments, MaxArgs)}

\* let make = func(x) { func(y) { x + y } }; let addFive = make(
MakeAdder ==
    <<"l", "e", "t", " ", "m", "a", "k", "e", " ", "=", " ", "f", "u", "n",
    "c", "(", "x", ")", " ", "{", " ", "f", "u", "n", "c", "(", "y", ")", " ",
    "{", " ", "x", " ", "+", " ", "y", " ", "}", " ", "}", ";", " ", "l", "e",
    "t", " ", "a", "d", "d", "F", "i", "v", "e", " ", "=", " ", "m", "a", "k",
    "e", "(">>
\* ); addFive(
CallAddFive == <<")", ";", " ", "a", "d", "d", "F", "i", "v", "e", "(">>
\* )
CloseCall == <<")">>

\* let make = func(x) { func(y) { x + y } }; let addFive = make(a); addFive(y)
AddFiveSource(a, y) ==
    MakeAdder \o IntStr(a) \o CallAddFive \o IntStr(y) \o CloseCall

AddFiveSources == {AddFiveSource(a, y) : a, y \in IntValues}

\* let make = func(x) { func(y) { let x = x + y; x } }; let a = make(
MakeCounter ==
    <<"l", "e", "t", " ", "m", "a", "k", "e", " ", "=", " ", "f", "u", "n",
    "c", "(", "x", ")", " ", "{", " ", "f", "u", "n", "c", "(", "y", ")", " ",
    "{", " ", "l", "e", "t", " ", "x", " ", "=", " ", "x", " ", "+", " ", "y",
    ";", " ", "x", " ", "}", " ", "}", ";", " ", "l", "e", "t", " ", "a", " ",
    "=", " ", "m", "a", "k", "e", "(">>
\* ); let b = make(
MakeB ==
    <<")", ";", " ", "l", "e", "t", " ", "b", " ", "=", " ", "m", "a", "k",
    "e", "(">>
\* ); b(
CallB == <<")", ";", " ", "b", "(">>
\* ); a(
CallA == <<")", ";", " ", "a", "(">>

\* Two closures of make, each called with y: b once, then a twice.
TwoClosuresSource(a, b, y) ==
    MakeCounter \o IntStr(a) \o MakeB \o IntStr(b) \o CallB \o IntStr(y)
    \o CallA \o IntStr(y) \o CallA \o IntStr(y) \o CloseCall

TwoClosuresSources == {TwoClosuresSource(a, b, y) : a, b, y \in IntValues}

\* let fact = func(n) { if (n < 2) { 1 } else { n * fact(n - 1) } }; fact(
FactDefinition ==
    <<"l", "e", "t", " ", "f", "a", "c", "t", " ", "=", " ", "f", "u", "n",
    "c", "(", "n", ")", " ", "{", " ", "i", "f", " ", "(", "n", " ", "<", " ",
    "2", ")", " ", "{", " ", "1", " ", "}", " ", "e", "l", "s", "e", " ", "{",
    " ", "n", " ", "*", " ", "f", "a", "c", "t", "(", "n", " ", "-", " ", "1",
    ")", " ", "}", " ", "}", ";", " ", "f", "a", "c", "t", "(">>

\* The documented recursive function, called with n.
FactSource(n) == FactDefinition \o IntStr(n) \o CloseCall

\* let fact = func(n) { if (n < 2) { 1 } else { fact(n - 1) * n } }; fact(
FactRightDefinition ==
    <<"l", "e", "t", " ", "f", "a", "c", "t", " ", "=", " ", "f", "u", "n",
    "c", "(", "n", ")", " ", "{", " ", "i", "f", " ", "(", "n", " ", "<", " ",
    "2", ")", " ", "{", " ", "1", " ", "}", " ", "e", "l", "s", "e", " ", "{",
    " ", "f", "a", "c", "t", "(", "n", " ", "-", " ", "1", ")", " ", "*", " ",
    "n", " ", "}", " ", "}", ";", " ", "f", "a", "c", "t", "(">>

\* The same function, reading n after the recursive call has returned.
FactRightSource(n) == FactRightDefinition \o IntStr(n) \o CloseCall

FactSources == {FactSource(n) : n \in IntValues} \cup {FactRightSource(n) : n \in IntValues}

\* let get = func() { v }; let v = 
GetDefinition ==
    <<"l", "e", "t", " ", "g", "e", "t", " ", "=", " ", "f", "u", "n", "c",
    "(", ")", " ", "{", " ", "v", " ", "}", ";", " ", "l", "e", "t", " ", "v",
    " ", "=", " ">>
\* ; get(); let v = 
GetThenLet ==
    <<";", " ", "g", "e", "t", "(", ")", ";", " ", "l", "e", "t", " ", "v",
    " ", "=", " ">>
\* ; get()
GetAgain == <<";", " ", "g", "e", "t", "(", ")">>

\* A closure over the global frame reads v, which is bound after the
\* capture and bound again between two calls.
LaterLetSource(a, b) ==
    GetDefinition \o IntStr(a) \o GetThenLet \o IntStr(b) \o GetAgain

LaterLetSources == {LaterLetSource(a, b) : a, b \in IntValues}

\* let f = func() { g() }; let g = func() { 
ForwardDefinition ==
    <<"l", "e", "t", " ", "f", " ", "=", " ", "f", "u", "n", "c", "(", ")",
    " ", "{", " ", "g", "(", ")", " ", "}", ";", " ", "l", "e", "t", " ", "g",
    " ", "=", " ", "f", "u", "n", "c", "(", ")", " ", "{", " ">>
\*  }; f()
ForwardCall == <<" ", "}", ";", " ", "f", "(", ")">>

\* f calls g, which is bound after f was made.
ForwardSource(v) == ForwardDefinition \o IntStr(v) \o ForwardCall

ForwardSources == {ForwardSource(v) : v \in IntValues}

\* n copies of the text s
RECURSIVE Repeat(_, _)
Repeat(s, n) == IF n = 0 THEN <<>> ELSE s \o Repeat(s, n - 1)

\* if (true) { 
OpenIf == <<"i", "f", " ", "(", "t", "r", "u", "e", ")", " ", "{", " ">>
\*  }
CloseBlock == <<" ", "}">>
\* return 
ReturnKeyword == <<"r", "e", "t", "u", "r", "n", " ">>

\* `return v` inside depth nested if-blocks
NestedReturn(depth, v) ==
    Repeat(OpenIf, depth) \o ReturnKeyword \o IntStr(v)
    \o Repeat(CloseBlock, depth)

\* let f = func() { 
OpenF ==
    <<"l", "e", "t", " ", "f", " ", "=", " ", "f", "u", "n", "c", "(", ")",
    " ", "{", " ">>
\* ; puts(9); 7 }; let g = func() { f(); puts(8); 6 }; puts(g()); puts(f()); 4
AfterReturn ==
    <<";", " ", "p", "u", "t", "s", "(", "9", ")", ";", " ", "7", " ", "}",
    ";", " ", "l", "e", "t", " ", "g", " ", "=", " ", "f", "u", "n", "c", "(",
    ")", " ", "{", " ", "f", "(", ")", ";", " ", "p", "u", "t", "s", "(", "8",
    ")", ";", " ", "6", " ", "}", ";", " ", "p", "u", "t", "s", "(", "g", "(",
    ")", ")", ";", " ", "p", "u", "t", "s", "(", "f", "(", ")", ")", ";", " ",
    "4">>

\* f returns v from inside depth nested if-blocks; g calls f and goes on;
\* the program calls g, then f, and goes on.
ReturnSource(depth, v) == OpenF \o NestedReturn(depth, v) \o AfterReturn

\* As ReturnSource, the if-blocks being the expression of a return
\* statement.
ReturnOfReturnSource(depth, v) ==
    OpenF \o ReturnKeyword \o NestedReturn(depth, v) \o AfterReturn

ReturnSources ==
    {ReturnSource(depth, v) : depth \in 0 .. MaxDepth, v \in IntValues}
    \cup {ReturnOfReturnSource(depth, v) : depth \in 1 .. MaxDepth,
                                           v \in IntValues}

\* !true
NotTrue == <<"!", "t", "r", "u", "e">>
\* -5 + 3 * 2
MinusFive == <<"-", "5", " ", "+", " ", "3", " ", "*", " ", "2">>
\* (1 + 2) * 3
Grouped == <<"(", "1", " ", "+", " ", "2", ")", " ", "*", " ", "3">>
\* for (i = 0; i < 2; let i = i + 1) { puts(i) }
ForLoop ==
    <<"f", "o", "r", " ", "(", "i", " ", "=", " ", "0", ";", " ", "i", " ",
    "<", " ", "2", ";", " ", "l", "e", "t", " ", "i", " ", "=", " ", "i", " ",
    "+", " ", "1", ")", " ", "{", " ", "p", "u", "t", "s", "(", "i", ")", " ",
    "}">>
\* for (i = 0; i < 1; let i = 0) { puts(i) }
EndlessLoop ==
    <<"f", "o", "r", " ", "(", "i", " ", "=", " ", "0", ";", " ", "i", " ",
    "<", " ", "1", ";", " ", "l", "e", "t", " ", "i", " ", "=", " ", "0", ")",
    " ", "{", " ", "p", "u", "t", "s", "(", "i", ")", " ", "}">>
\* [1, 2][0]
IndexOfList == <<"[", "1", ",", " ", "2", "]", "[", "0", "]">>
\* a[1 + 2]
IndexOfName == <<"a", "[", "1", " ", "+", " ", "2", "]">>
\* func() { 1 }
FunctionNoParameters ==
    <<"f", "u", "n", "c", "(", ")", " ", "{", " ", "1", " ", "}">>
\* func(x, y) { x }
FunctionTwoParameters ==
    <<"f", "u", "n", "c", "(", "x", ",", " ", "y", ")", " ", "{", " ", "x",
    " ", "}">>
\* func(x) { x }(1)
FunctionCalled ==
    <<"f", "u", "n", "c", "(", "x", ")", " ", "{", " ", "x", " ", "}", "(",
    "1", ")">>
\* len()
CallNoArguments == <<"l", "e", "n", "(", ")">>
\* f(1)(2)
CallOfCall == <<"f", "(", "1", ")", "(", "2", ")">>
\* if (true) { 1 } else { 2 }
IfElse ==
    <<"i", "f", " ", "(", "t", "r", "u", "e", ")", " ", "{", " ", "1", " ",
    "}", " ", "e", "l", "s", "e", " ", "{", " ", "2", " ", "}">>
\* if (false) { 1 }
IfAlone ==
    <<"i", "f", " ", "(", "f", "a", "l", "s", "e", ")", " ", "{", " ", "1",
    " ", "}">>
\* let s = "a b"; s
LetString ==
    <<"l", "e", "t", " ", "s", " ", "=", " ", "\"", "a", " ", "b", "\"", ";",
    " ", "s">>
\* "(a)"
StringWithParentheses == <<"\"", "(", "a", ")", "\"">>
\* let f = func(x) { return x; }; f(2)
LetFunction ==
    <<"l", "e", "t", " ", "f", " ", "=", " ", "f", "u", "n", "c", "(", "x",
    ")", " ", "{", " ", "r", "e", "t", "u", "r", "n", " ", "x", ";", " ", "}",
    ";", " ", "f", "(", "2", ")">>
\* true
TrueLiteral == <<"t", "r", "u", "e">>
\* a + b
Identifiers == <<"a", " ", "+", " ", "b">>
\* let x = ; 5
MissingValue == <<"l", "e", "t", " ", "x", " ", "=", " ", ";", " ", "5">>
\* if (x) { 1 
UnclosedBlock == <<"i", "f", " ", "(", "x", ")", " ", "{", " ", "1", " ">>

\* One program for each construct of the language, two that the parser
\* rejects, and one whose loop never ends.
ConstructSources ==
    {NotTrue, MinusFive, Grouped, ForLoop, EndlessLoop, IndexOfList,
     IndexOfName, FunctionNoParameters, FunctionTwoParameters, FunctionCalled,
     CallNoArguments, CallOfCall, IfElse, IfAlone, LetString,
     StringWithParentheses, LetFunction, TrueLiteral, Identifiers,
     MissingValue, UnclosedBlock}

\* `a op1 b op2 c`
TwoOperatorsSource(op1, op2) ==
    <<"a", " ">> \o op1 \o <<" ", "b", " ">> \o op2 \o <<" ", "c">>

PrefixOperators == {<<"-">>, <<"!">>}

\* `pre a op b`, the prefix operator written against its operand
PrefixThenInfixSource(pre, op) == pre \o <<"a", " ">> \o op \o <<" ", "b">>

\* f(1)
CallSuffix == <<"f", "(", "1", ")">>
\* b[1]
IndexSuffix == <<"b", "[", "1", "]">>

\* `a op f(1)` and `a op b[1]`
InfixThenSuffixSource(op, suffix) == <<"a", " ">> \o op \o <<" ">> \o suffix

\* f(1)(2)[3]
CallOfCallOfIndex == <<"f", "(", "1", ")", "(", "2", ")", "[", "3", "]">>
\* -b[1]
MinusIndex == <<"-", "b", "[", "1", "]">>
\* -f(1)
MinusCall == <<"-", "f", "(", "1", ")">>
\* !f(1)
NotCall == <<"!", "f", "(", "1", ")">>

PrecedenceSources ==
    {TwoOperatorsSource(op1, op2) : op1, op2 \in InfixOperators}
    \cup {PrefixThenInfixSource(pre, op) : pre \in PrefixOperators,
                                           op \in InfixOperators}
    \cup {InfixThenSuffixSource(op, suffix) :
             op \in InfixOperators, suffix \in {CallSuffix, IndexSuffix}}
    \cup {CallOfCall, CallOfCallOfIndex, MinusIndex, MinusCall, NotCall}

\* The longest list that the index and push families build.
MaxListLen == 2

\* The list literal [7, 8, ...] of n elements
ListText(n) ==
    <<"[">> \o JoinWith(Comma, [k \in 1 .. n |-> IntStr(6 + k)]) \o <<"]">>

\* An integer as an expression: the literal, or the negation of one
IntText(i) == IF i < 0 THEN <<"-">> \o IntStr(-i) ELSE IntStr(i)

\* let a = 
LetA == <<"l", "e", "t", " ", "a", " ", "=", " ">>
\* ; a[
IndexA == <<";", " ", "a", "[">>
\* ]; a
ThenA == <<"]", ";", " ", "a">>

\* let a = [7, 8, ...]; a[i]; a
IndexSource(n, i) == LetA \o ListText(n) \o IndexA \o IntText(i) \o ThenA

IndexSources ==
    {IndexSource(n, i) : n \in 0 .. MaxListLen, i \in -2 .. MaxListLen + 1}

\* The names x1, x2, ... of n parameters
ParameterNames(n) == [k \in 1 .. n |-> <<"x">> \o IntStr(k)]

\* let f = func(
LetF == <<"l", "e", "t", " ", "f", " ", "=", " ", "f", "u", "n", "c", "(">>
\* ) { puts(9); 7 }; f(
BodyOfF ==
    <<")", " ", "{", " ", "p", "u", "t", "s", "(", "9", ")", ";", " ", "7",
    " ", "}", ";", " ", "f", "(">>
\* ); 4
AfterF == <<")", ";", " ", "4">>

\* f has n parameters, prints 9 and yields 7; it is called with m arguments.
CallCountSource(n, m) ==
    LetF \o JoinWith(Comma, ParameterNames(n)) \o BodyOfF
    \o JoinWith(Comma, [k \in 1 .. m |-> IntStr(k)]) \o AfterF

CallCountSources == {CallCountSource(n, m) : n, m \in 0 .. MaxArgs}

\* (1); 4
CalledWithOne == <<"(", "1", ")", ";", " ", "4">>

\* A value of each type, called as a function
NotFunctionSource(operand) == operand \o CalledWithOne

NotFunctionSources == {NotFunctionSource(operand) : operand \in Operands}

\* let t = func(i) { puts(i); i < 
LetT ==
    <<"l", "e", "t", " ", "t", " ", "=", " ", "f", "u", "n", "c", "(", "i",
    ")", " ", "{", " ", "p", "u", "t", "s", "(", "i", ")", ";", " ", "i", " ",
    "<", " ">>
\*  }; for (i = 0; t(i); let i = i + 1) { puts(9) }
LoopOverT ==
    <<" ", "}", ";", " ", "f", "o", "r", " ", "(", "i", " ", "=", " ", "0",
    ";", " ", "t", "(", "i", ")", ";", " ", "l", "e", "t", " ", "i", " ", "=",
    " ", "i", " ", "+", " ", "1", ")", " ", "{", " ", "p", "u", "t", "s", "(",
    "9", ")", " ", "}">>

\* The condition of the loop prints the counter each time it is evaluated;
\* the body prints 9.
ForConditionSource(k) == LetT \o IntStr(k) \o LoopOverT

\* let prod=1; for (i=1; i<=5; let i=i+1){ let prod=prod*i; } prod;
ProductLoop ==
    <<"l", "e", "t", " ", "p", "r", "o", "d", "=", "1", ";", " ", "f", "o",
    "r", " ", "(", "i", "=", "1", ";", " ", "i", "<", "=", "5", ";", " ", "l",
    "e", "t", " ", "i", "=", "i", "+", "1", ")", "{", " ", "l", "e", "t", " ",
    "p", "r", "o", "d", "=", "p", "r", "o", "d", "*", "i", ";", " ", "}", " ",
    "p", "r", "o", "d", ";">>

ForSources == {ForConditionSource(k) : k \in 0 .. MaxInt} \cup {ProductLoop}

\* let len = 5; len
ShadowLen ==
    <<"l", "e", "t", " ", "l", "e", "n", " ", "=", " ", "5", ";", " ", "l",
    "e", "n">>
\* let x = 1; let f = func(x) { let g = func() { x }; g() }; f(2)
ShadowInFunction ==
    <<"l", "e", "t", " ", "x", " ", "=", " ", "1", ";", " ", "l", "e", "t",
    " ", "f", " ", "=", " ", "f", "u", "n", "c", "(", "x", ")", " ", "{", " ",
    "l", "e", "t", " ", "g", " ", "=", " ", "f", "u", "n", "c", "(", ")", " ",
    "{", " ", "x", " ", "}", ";", " ", "g", "(", ")", " ", "}", ";", " ", "f",
    "(", "2", ")">>
\* let x = 1; let f = func(y) { let g = func() { x }; g() }; f(2)
GlobalFromFunction ==
    <<"l", "e", "t", " ", "x", " ", "=", " ", "1", ";", " ", "l", "e", "t",
    " ", "f", " ", "=", " ", "f", "u", "n", "c", "(", "y", ")", " ", "{", " ",
    "l", "e", "t", " ", "g", " ", "=", " ", "f", "u", "n", "c", "(", ")", " ",
    "{", " ", "x", " ", "}", ";", " ", "g", "(", ")", " ", "}", ";", " ", "f",
    "(", "2", ")">>
\* let f = func(y) { len }; f(2)
BuiltinFromFunction ==
    <<"l", "e", "t", " ", "f", " ", "=", " ", "f", "u", "n", "c", "(", "y",
    ")", " ", "{", " ", "l", "e", "n", " ", "}", ";", " ", "f", "(", "2",
    ")">>
\* let f = func(y) { z }; f(2)
UnboundInFunction ==
    <<"l", "e", "t", " ", "f", " ", "=", " ", "f", "u", "n", "c", "(", "y",
    ")", " ", "{", " ", "z", " ", "}", ";", " ", "f", "(", "2", ")">>
\* let len = puts(1); len
LenBoundToPuts ==
    <<"l", "e", "t", " ", "l", "e", "n", " ", "=", " ", "p", "u", "t", "s",
    "(", "1", ")", ";", " ", "l", "e", "n">>
\* let x = 1; let f = func() { let x = puts(2); x }; f()
InnerBoundToPuts ==
    <<"l", "e", "t", " ", "x", " ", "=", " ", "1", ";", " ", "l", "e", "t",
    " ", "f", " ", "=", " ", "f", "u", "n", "c", "(", ")", " ", "{", " ", "l",
    "e", "t", " ", "x", " ", "=", " ", "p", "u", "t", "s", "(", "2", ")", ";",
    " ", "x", " ", "}", ";", " ", "f", "(", ")">>

IdentifierSources ==
    {ShadowLen, ShadowInFunction, GlobalFromFunction, BuiltinFromFunction,
     UnboundInFunction, LenBoundToPuts, InnerBoundToPuts}

\* let a = [1]; let b = a; push(2, b); a
PushAlias ==
    <<"l", "e", "t", " ", "a", " ", "=", " ", "[", "1", "]", ";", " ", "l",
    "e", "t", " ", "b", " ", "=", " ", "a", ";", " ", "p", "u", "s", "h", "(",
    "2", ",", " ", "b", ")", ";", " ", "a">>
\* let a = [1]; let f = func(l) { push(2, l); 0 }; f(a); a
PushArgument ==
    <<"l", "e", "t", " ", "a", " ", "=", " ", "[", "1", "]", ";", " ", "l",
    "e", "t", " ", "f", " ", "=", " ", "f", "u", "n", "c", "(", "l", ")", " ",
    "{", " ", "p", "u", "s", "h", "(", "2", ",", " ", "l", ")", ";", " ", "0",
    " ", "}", ";", " ", "f", "(", "a", ")", ";", " ", "a">>
\* let a = [1]; let g = func() { push(3, a) }; let b = g(); push(4, b); a
PushClosure ==
    <<"l", "e", "t", " ", "a", " ", "=", " ", "[", "1", "]", ";", " ", "l",
    "e", "t", " ", "g", " ", "=", " ", "f", "u", "n", "c", "(", ")", " ", "{",
    " ", "p", "u", "s", "h", "(", "3", ",", " ", "a", ")", " ", "}", ";", " ",
    "l", "e", "t", " ", "b", " ", "=", " ", "g", "(", ")", ";", " ", "p", "u",
    "s", "h", "(", "4", ",", " ", "b", ")", ";", " ", "a">>
\* let a = [1]; let b = [a]; push(2, a); b[0]
PushNested ==
    <<"l", "e", "t", " ", "a", " ", "=", " ", "[", "1", "]", ";", " ", "l",
    "e", "t", " ", "b", " ", "=", " ", "[", "a", "]", ";", " ", "p", "u", "s",
    "h", "(", "2", ",", " ", "a", ")", ";", " ", "b", "[", "0", "]">>

PushSources == {PushAlias, PushArgument, PushClosure, PushNested}

\* let x = puts(1); x
LetOfPuts ==
    <<"l", "e", "t", " ", "x", " ", "=", " ", "p", "u", "t", "s", "(", "1",
    ")", ";", " ", "x">>
\* let x = 1
LetAlone == <<"l", "e", "t", " ", "x", " ", "=", " ", "1">>
\* let y = 1; for (i = 0; i < 1; let i = i + 1) { y }
ForAlone ==
    <<"l", "e", "t", " ", "y", " ", "=", " ", "1", ";", " ", "f", "o", "r",
    " ", "(", "i", " ", "=", " ", "0", ";", " ", "i", " ", "<", " ", "1", ";",
    " ", "l", "e", "t", " ", "i", " ", "=", " ", "i", " ", "+", " ", "1", ")",
    " ", "{", " ", "y", " ", "}">>
\* puts(1)
PutsAlone == <<"p", "u", "t", "s", "(", "1", ")">>

NullSources == {LetOfPuts, LetAlone, ForAlone, PutsAlone}

\* func() { for (i = 0; i < 3; let i = i + 1) { return i; } 9 }()
ReturnInLoop ==
    <<"f", "u", "n", "c", "(", ")", " ", "{", " ", "f", "o", "r", " ", "(",
    "i", " ", "=", " ", "0", ";", " ", "i", " ", "<", " ", "3", ";", " ", "l",
    "e", "t", " ", "i", " ", "=", " ", "i", " ", "+", " ", "1", ")", " ", "{",
    " ", "r", "e", "t", "u", "r", "n", " ", "i", ";", " ", "}", " ", "9", " ",
    "}", "(", ")">>
\* for (i = 0; i < 3; let i = i + 1) { puts(i); return i; } 9
ReturnInTopLoop ==
    <<"f", "o", "r", " ", "(", "i", " ", "=", " ", "0", ";", " ", "i", " ",
    "<", " ", "3", ";", " ", "l", "e", "t", " ", "i", " ", "=", " ", "i", " ",
    "+", " ", "1", ")", " ", "{", " ", "p", "u", "t", "s", "(", "i", ")", ";",
    " ", "r", "e", "t", "u", "r", "n", " ", "i", ";", " ", "}", " ", "9">>

ReturnInForSources == {ReturnInLoop, ReturnInTopLoop}

\* puts(1); let x = 2; let = 3
PrintThenError ==
    <<"p", "u", "t", "s", "(", "1", ")", ";", " ", "l", "e", "t", " ", "x",
    " ", "=", " ", "2", ";", " ", "l", "e", "t", " ", "=", " ", "3">>

\* for (i = 0; i + true; let i = i + 1) { puts(9) }; 4
ForErrorFirst ==
    <<"f", "o", "r", " ", "(", "i", " ", "=", " ", "0", ";", " ", "i", " ",
    "+", " ", "t", "r", "u", "e", ";", " ", "l", "e", "t", " ", "i", " ", "=",
    " ", "i", " ", "+", " ", "1", ")", " ", "{", " ", "p", "u", "t", "s", "(",
    "9", ")", " ", "}", ";", " ", "4">>
\* let a = [1]; for (i = 0; a[i]; let i = i + 1) { puts(i) }; 4
ForErrorLater ==
    <<"l", "e", "t", " ", "a", " ", "=", " ", "[", "1", "]", ";", " ", "f",
    "o", "r", " ", "(", "i", " ", "=", " ", "0", ";", " ", "a", "[", "i", "]",
    ";", " ", "l", "e", "t", " ", "i", " ", "=", " ", "i", " ", "+", " ", "1",
    ")", " ", "{", " ", "p", "u", "t", "s", "(", "i", ")", " ", "}", ";", " ",
    "4">>

ForErrorSources == {ForErrorFirst, ForErrorLater}

\* y
UnboundY == <<"y">>
\* puts(
PutsOf == <<"p", "u", "t", "s", "(">>
\* )
Closing == <<")">>
\* f(
CalleeF == <<"f", "(">>
\* puts(
CalleePuts == <<"p", "u", "t", "s", "(">>

\* n arguments: puts(1), puts(2), ..., but the unbound name y at position k
ArgumentsWithError(n, k) ==
    JoinWith(Comma, [j \in 1 .. n |->
                        IF j = k THEN UnboundY ELSE PutsOf \o IntStr(j) \o Closing])

\* f has n parameters, prints 9 and yields 7; it is called with the
\* arguments puts(1), ..., y, ..., puts(n), y at position k (nowhere: k = 0).
CallErrorSource(n, k) ==
    LetF \o JoinWith(Comma, ParameterNames(n)) \o <<")", " ", "{", " ">>
    \o PutsOf \o <<"9">> \o Closing \o <<";", " ", "7", " ", "}", ";", " ">>
    \o CalleeF \o ArgumentsWithError(n, k) \o AfterF

\* puts called with the same arguments
BuiltinErrorSource(n, k) == CalleePuts \o ArgumentsWithError(n, k) \o AfterF

\* g(puts(1)); 4
UnboundCallee ==
    <<"g", "(", "p", "u", "t", "s", "(", "1", ")", ")", ";", " ", "4">>

CallErrorSources ==
    {CallErrorSource(n, k) : n \in 1 .. MaxArgs, k \in 0 .. MaxArgs}
    \cup {BuiltinErrorSource(n, k) : n \in 1 .. MaxArgs, k \in 0 .. MaxArgs}
    \cup {UnboundCallee}

\* The list literal of n elements 1, 2, ..., but the unbound name y at
\* position k
ListErrorSource(n, k) ==
    <<"[">> \o JoinWith(Comma, [j \in 1 .. n |->
                                   IF j = k THEN UnboundY ELSE IntStr(j)])
    \o <<"]">>

\* [y, z]
ListOfTwoErrors == <<"[", "y", ",", " ", "z", "]">>
\* [puts(1), y, puts(2)]
ListOfPutsAndError ==
    <<"[", "p", "u", "t", "s", "(", "1", ")", ",", " ", "y", ",", " ", "p",
    "u", "t", "s", "(", "2", ")", "]">>

ListErrorSources ==
    {ListErrorSource(n, k) : n \in 1 .. MaxListLen + 1, k \in 1 .. MaxListLen + 1}
    \cup {ListOfTwoErrors, ListOfPutsAndError}

\* false
FalseOperand == <<"f", "a", "l", "s", "e">>
\* let a = [1]; a == a
SameList ==
    <<"l", "e", "t", " ", "a", " ", "=", " ", "[", "1", "]", ";", " ", "a",
    " ", "=", "=", " ", "a">>
\* let f = func(x) { x }; f != f
SameFunction ==
    <<"l", "e", "t", " ", "f", " ", "=", " ", "f", "u", "n", "c", "(", "x",
    ")", " ", "{", " ", "x", " ", "}", ";", " ", "f", " ", "!", "=", " ",
    "f">>

EqualitySources ==
    {l \o <<" ">> \o op \o <<" ">> \o r :
        l, r \in {TrueOperand, FalseOperand}, op \in {
            <<"=", "=">>, <<"!", "=">>}}
    \cup {SameList, SameFunction}

\* let x = 1; let f = func() { let x = 2; x }; puts(f()); x
LetInCall ==
    <<"l", "e", "t", " ", "x", " ", "=", " ", "1", ";", " ", "l", "e", "t",
    " ", "f", " ", "=", " ", "f", "u", "n", "c", "(", ")", " ", "{", " ", "l",
    "e", "t", " ", "x", " ", "=", " ", "2", ";", " ", "x", " ", "}", ";", " ",
    "p", "u", "t", "s", "(", "f", "(", ")", ")", ";", " ", "x">>
\* let x = 1; let f = func() { let x = 2; let g = func() { let x = 3; x }; puts(g()); x }; puts(f()); x
LetInNestedCall ==
    <<"l", "e", "t", " ", "x", " ", "=", " ", "1", ";", " ", "l", "e", "t",
    " ", "f", " ", "=", " ", "f", "u", "n", "c", "(", ")", " ", "{", " ", "l",
    "e", "t", " ", "x", " ", "=", " ", "2", ";", " ", "l", "e", "t", " ", "g",
    " ", "=", " ", "f", "u", "n", "c", "(", ")", " ", "{", " ", "l", "e", "t",
    " ", "x", " ", "=", " ", "3", ";", " ", "x", " ", "}", ";", " ", "p", "u",
    "t", "s", "(", "g", "(", ")", ")", ";", " ", "x", " ", "}", ";", " ", "p",
    "u", "t", "s", "(", "f", "(", ")", ")", ";", " ", "x">>
\* let mk = func() { let x = 1; let g = func() { let x = 2; x }; puts(g()); x }; mk()
LetInClosure ==
    <<"l", "e", "t", " ", "m", "k", " ", "=", " ", "f", "u", "n", "c", "(",
    ")", " ", "{", " ", "l", "e", "t", " ", "x", " ", "=", " ", "1", ";", " ",
    "l", "e", "t", " ", "g", " ", "=", " ", "f", "u", "n", "c", "(", ")", " ",
    "{", " ", "l", "e", "t", " ", "x", " ", "=", " ", "2", ";", " ", "x", " ",
    "}", ";", " ", "p", "u", "t", "s", "(", "g", "(", ")", ")", ";", " ", "x",
    " ", "}", ";", " ", "m", "k", "(", ")">>
\* let f = func(x) { let x = 2; x }; let x = 1; puts(f(5)); x
LetOverParameter ==
    <<"l", "e", "t", " ", "f", " ", "=", " ", "f", "u", "n", "c", "(", "x",
    ")", " ", "{", " ", "l", "e", "t", " ", "x", " ", "=", " ", "2", ";", " ",
    "x", " ", "}", ";", " ", "l", "e", "t", " ", "x", " ", "=", " ", "1", ";",
    " ", "p", "u", "t", "s", "(", "f", "(", "5", ")", ")", ";", " ", "x">>

LetInCallSources == {LetInCall, LetInNestedCall, LetInClosure, LetOverParameter}

\* return;
ReturnSemicolon == <<"r", "e", "t", "u", "r", "n", ";">>
\* return
ReturnAlone == <<"r", "e", "t", "u", "r", "n">>
\* return; 5
ReturnThenFive == <<"r", "e", "t", "u", "r", "n", ";", " ", "5">>
\* puts(1); return; puts(2)
ReturnBetweenPuts ==
    <<"p", "u", "t", "s", "(", "1", ")", ";", " ", "r", "e", "t", "u", "r",
    "n", ";", " ", "p", "u", "t", "s", "(", "2", ")">>
\* let f = func() { return; }; f()
ReturnInFunction ==
    <<"l", "e", "t", " ", "f", " ", "=", " ", "f", "u", "n", "c", "(", ")",
    " ", "{", " ", "r", "e", "t", "u", "r", "n", ";", " ", "}", ";", " ", "f",
    "(", ")">>

BareReturnSources ==
    {ReturnSemicolon, ReturnAlone, ReturnThenFive, ReturnBetweenPuts,
     ReturnInFunction}

\* func(
FuncOf == <<"f", "u", "n", "c", "(">>
\* ) { 1 }
BodyOne == <<")", " ", "{", " ", "1", " ", "}">>
\* "s"
StringS == <<"\"", "s", "\"">>
\* let
KeywordLet == <<"l", "e", "t">>
\* func(a, 1) { a }
SecondParameterOne ==
    <<"f", "u", "n", "c", "(", "a", ",", " ", "1", ")", " ", "{", " ", "a",
    " ", "}">>
\* func(a b) { a }
MissingComma ==
    <<"f", "u", "n", "c", "(", "a", " ", "b", ")", " ", "{", " ", "a", " ",
    "}">>

\* Tokens that are no identifier, in the position of a parameter
NotIdentifiers == {<<"1">>, KeywordLet, TrueOperand, <<"+">>, StringS}

\* func(tok) { 1 }
ParameterSource(tok) == FuncOf \o tok \o BodyOne

ParameterSources ==
    {ParameterSource(tok) : tok \in NotIdentifiers \cup {<<"a">>}}
    \cup {SecondParameterOne, MissingComma, FunctionTwoParameters}

\*  // c
CommentText == <<" ", "/", "/", " ", "c">>
\* // c
CommentAlone == <<"/", "/", " ", "c">>
\* let x = 1;
LetXSemicolon == <<"l", "e", "t", " ", "x", " ", "=", " ", "1", ";">>

\* Programs, each followed by a line comment
Commented == {ValueStatement, LetX, LetXSemicolon, PutsTwo}

CommentSources == {base \o CommentText : base \in Commented} \cup {CommentAlone}

\* let x = if (true) { return 1 }; x
LetOfReturn ==
    <<"l", "e", "t", " ", "x", " ", "=", " ", "i", "f", " ", "(", "t", "r",
    "u", "e", ")", " ", "{", " ", "r", "e", "t", "u", "r", "n", " ", "1", " ",
    "}", ";", " ", "x">>
\* let f = func(a) { a }; f(if (true) { return 1 })
ArgumentOfReturn ==
    <<"l", "e", "t", " ", "f", " ", "=", " ", "f", "u", "n", "c", "(", "a",
    ")", " ", "{", " ", "a", " ", "}", ";", " ", "f", "(", "i", "f", " ", "(",
    "t", "r", "u", "e", ")", " ", "{", " ", "r", "e", "t", "u", "r", "n", " ",
    "1", " ", "}", ")">>
\* let x = y; 4
LetOfError == <<"l", "e", "t", " ", "x", " ", "=", " ", "y", ";", " ", "4">>

BindingSources == {LetOfReturn, ArgumentOfReturn, LetOfError}

\* if (true) { let x = 1 }; x
LetInIf ==
    <<"i", "f", " ", "(", "t", "r", "u", "e", ")", " ", "{", " ", "l", "e",
    "t", " ", "x", " ", "=", " ", "1", " ", "}", ";", " ", "x">>
\* if (false) { 1 } else { let z = 2 }; z
LetInElse ==
    <<"i", "f", " ", "(", "f", "a", "l", "s", "e", ")", " ", "{", " ", "1",
    " ", "}", " ", "e", "l", "s", "e", " ", "{", " ", "l", "e", "t", " ", "z",
    " ", "=", " ", "2", " ", "}", ";", " ", "z">>
\* for (i = 0; i < 1; let i = i + 1) { let y = 5 }; y
LetInFor ==
    <<"f", "o", "r", " ", "(", "i", " ", "=", " ", "0", ";", " ", "i", " ",
    "<", " ", "1", ";", " ", "l", "e", "t", " ", "i", " ", "=", " ", "i", " ",
    "+", " ", "1", ")", " ", "{", " ", "l", "e", "t", " ", "y", " ", "=", " ",
    "5", " ", "}", ";", " ", "y">>
\* let f = func() { if (true) { let x = 1 }; x }; puts(f()); x
LetInIfInCall ==
    <<"l", "e", "t", " ", "f", " ", "=", " ", "f", "u", "n", "c", "(", ")",
    " ", "{", " ", "i", "f", " ", "(", "t", "r", "u", "e", ")", " ", "{", " ",
    "l", "e", "t", " ", "x", " ", "=", " ", "1", " ", "}", ";", " ", "x", " ",
    "}", ";", " ", "p", "u", "t", "s", "(", "f", "(", ")", ")", ";", " ",
    "x">>
\* let f = func() { for (i = 0; i < 1; let i = i + 1) { let y = 5 }; y }; puts(f()); y
LetInForInCall ==
    <<"l", "e", "t", " ", "f", " ", "=", " ", "f", "u", "n", "c", "(", ")",
    " ", "{", " ", "f", "o", "r", " ", "(", "i", " ", "=", " ", "0", ";", " ",
    "i", " ", "<", " ", "1", ";", " ", "l", "e", "t", " ", "i", " ", "=", " ",
    "i", " ", "+", " ", "1", ")", " ", "{", " ", "l", "e", "t", " ", "y", " ",
    "=", " ", "5", " ", "}", ";", " ", "y", " ", "}", ";", " ", "p", "u", "t",
    "s", "(", "f", "(", ")", ")", ";", " ", "y">>
\* let x = 1; if (true) { let x = 2 }; x
LetAgainInIf ==
    <<"l", "e", "t", " ", "x", " ", "=", " ", "1", ";", " ", "i", "f", " ",
    "(", "t", "r", "u", "e", ")", " ", "{", " ", "l", "e", "t", " ", "x", " ",
    "=", " ", "2", " ", "}", ";", " ", "x">>

BlockSources ==
    {LetInIf, LetInElse, LetInFor, LetInIfInCall, LetInForInCall, LetAgainInIf}

Sources ==
    InfixSources \cup StatementSources \cup BuiltinCallSources
    \cup AddFiveSources \cup TwoClosuresSources \cup FactSources
    \cup LaterLetSources \cup ForwardSources \cup ReturnSources
    \cup ConstructSources \cup PrecedenceSources \cup IndexSources
    \cup CallCountSources \cup NotFunctionSources \cup ForSources
    \cup IdentifierSources \cup PushSources \cup NullSources
    \cup ReturnInForSources \cup {PrintThenError}
    \cup ForErrorSources \cup CallErrorSources \cup ListErrorSources
    \cup EqualitySources \cup LetInCallSources \cup BareReturnSources
    \cup ParameterSources \cup CommentSources \cup BindingSources
    \cup BlockSources

-----------------------------------------------------------------------------
(* The driver: src/vih.py.  The parser and the evaluator run one step per  *)
(* action.                                                                 *)

\* lex = Lexer(input_string); parser = Parser(lex)
Init ==
    /\ input_string \in Sources
    /\ pc = "parse"
    /\ parser = Parser(Lexer(input_string))
    /\ program = None
    /\ stack = <<>>
    /\ ret = NONE
    /\ heap = NewHeap
    /\ result = NONE
    /\ printed = <<>>

\* program = parser.parse_program(): one step of the parser.  A parser that
\* loops forever never returns to the driver.
ParserStep ==
    /\ pc \in {"parse", "reparse"}
    /\ parser' = ParserRun(parser)
    /\ pc' = IF parser'.hung THEN "hung"
             ELSE IF parser'.stack # <<>> THEN pc
             ELSE IF pc = "parse" THEN "parsed"
             ELSE "reparsed"
    /\ program' = IF pc' \in {"parsed", "reparsed"} THEN parser'.ret ELSE program
    /\ UNCHANGED <<input_string, stack, ret, heap, result, printed>>

\* env = Environment(); result = eval(program, env): the call
EvalProgram ==
    /\ pc = "parsed"
    /\ stack' = <<Frame("eval", program, 1, <<>>)>>
    /\ pc' = "eval"
    /\ UNCHANGED <<input_string, parser, program, ret, heap, result, printed>>

\* result = eval(program, env): one step of the evaluator.  An exception
\* ends the driver with a traceback.
EvalStep ==
    /\ pc = "eval"
    /\ LET m == EvalRun([stack |-> stack, ret |-> ret, heap |-> heap])
       IN  /\ stack' = m.stack
           /\ ret' = m.ret
           /\ heap' = m.heap
           /\ pc' = IF m.stack # <<>> THEN pc
                    ELSE IF m.ret.t = "EXCEPTION" THEN "crashed"
                    ELSE IF m.ret.t = "DIVERGED" THEN "diverged"
                    ELSE "returned"
           /\ result' = IF m.stack # <<>> THEN result ELSE m.ret
    /\ UNCHANGED <<input_string, parser, program, printed>>

\* The driver after eval: the parser's errors, else the result unless None.
Report ==
    /\ pc = "returned"
    /\ IF parser.errors # <<>>
       THEN /\ heap' = [heap EXCEPT !.out = @ \o parser.errors]
            /\ pc' = "done"
       ELSE IF result.t = "None"
       THEN /\ heap' = heap
            /\ pc' = "done"
       ELSE LET shown == print(heap, result)
            IN  /\ heap' = shown.h
                /\ pc' = IF shown.exception # "" THEN "crashed" ELSE "done"
    /\ UNCHANGED <<input_string, parser, program, stack, ret, result, printed>>

Next == ParserStep \/ EvalProgram \/ EvalStep \/ Report

Spec == Init /\ [][Next]_vars

-----------------------------------------------------------------------------
(* The round trip: the program is parsed, printed with str(program), and   *)
(* the text is parsed again by a new parser.                               *)

\* printed = str(program); parser = Parser(Lexer(printed))
PrintProgram ==
    /\ pc = "parsed"
    /\ parser.errors = <<>>
    /\ printed' = Str(program)
    /\ parser' = Parser(Lexer(printed'))
    /\ pc' = "reparse"
    /\ UNCHANGED <<input_string, program, stack, ret, heap, result>>

NextRoundTrip == ParserStep \/ PrintProgram

SpecRoundTrip == Init /\ [][NextRoundTrip]_vars

-----------------------------------------------------------------------------
(* Properties of the evaluator *)

\* The evaluator is about to run the call on top of its stack.
Running == pc = "eval" /\ stack # <<>>

\* eval_program, called by the driver, resumes with the value of a statement.
ProgramResumes ==
    /\ Running
    /\ Len(stack) = 1
    /\ Top(stack).fn = "eval_program"
    /\ Top(stack).at = "stmt"

\* C1: when the first statement of a program is an expression statement
\* whose value is an Error, eval(Program) returns that Error in the same
\* step, with no binding added, no list changed and nothing printed, and
\* after eval has returned no frame and no list changes any more.
FirstStatementError ==
    [][/\ (/\ ProgramResumes
           /\ Top(stack).v = 1
           /\ Top(stack).node.statements[1].type = "ExpressionStatement"
           /\ is_error(ret))
          => (pc' = "returned" /\ result' = ret /\ heap' = heap)
       /\ pc = "returned"
          => (/\ heap'.frames = heap.frames
              /\ heap'.lists = heap.lists
              /\ result' = result
              /\ stack' = stack)]_vars

\* `5 + true` followed by a binding, a print and a push: the Error is the
\* result, nothing is bound, listed or printed.
FirstStatementErrorWitness ==
    /\ pc = "returned"
    /\ input_string = <<"5", " ", "+", " ">> \o TrueOperand \o Continuation
    /\ result = ErrorObject("type mismatch: INTEGER + BOOLEAN")
    /\ heap = NewHeap

CallResumes ==
    Running /\ Top(stack).fn = "apply_function" /\ Top(stack).at = "evaluated"

\* C3: the result of eval(Program) is never a Return value, and no call of
\* a function yields one.
NoReturnEscapes ==
    /\ [](pc = "returned" => result.t # "RETURN_VALUE")
    /\ [][CallResumes => ret'.t # "RETURN_VALUE"]_vars

\* C4: in the programs where f returns v from inside nested if-blocks, g
\* calls f and goes on, and the program calls g, then f, and goes on: the
\* statements of f after the return are skipped (9 is never printed), g
\* prints 8 and yields 6, the call of f yields v, and the program yields 4.
ReturnEndsOnlyItsFunction ==
    \A depth \in 0 .. MaxDepth, v \in IntValues :
        (/\ pc = "returned"
         /\ input_string \in {ReturnSource(depth, v),
                              ReturnOfReturnSource(depth, v)})
        => (result = IntegerObject(4)
            /\ heap.out = <<"8", "6", Join(IntStr(v))>>)

\* C5: every call of a Function adds one frame, whose outer is the
\* environment that the Function captured, and changes no other frame but
\* by binding the parameters in the new one; addFive(y) made by make(a)
\* yields a + y, and a closure of make(a) yields a + y again after a
\* closure of make(b) and itself were called.
ClosureCapture ==
    /\ [](\A a, y \in IntValues :
            (pc = "returned" /\ input_string = AddFiveSource(a, y))
            => result = IntegerObject(a + y))
    /\ [](\A a, b, y \in IntValues :
            (pc = "returned" /\ input_string = TwoClosuresSource(a, b, y))
            => result = IntegerObject(a + y))
    /\ [][(/\ Running
           /\ Top(stack).fn = "apply_function"
           /\ Top(stack).at = "start"
           /\ Top(stack).v.function.t = "FUNCTION"
           /\ stack' # <<>>
           /\ Top(stack').fn = "eval")
          => (/\ Len(heap'.frames) = Len(heap.frames) + 1
              /\ SubSeq(heap'.frames, 1, Len(heap.frames)) = heap.frames
              /\ heap'.frames[Len(heap'.frames)].outer
                     = Top(stack).v.function.env
              /\ Top(stack').env = Len(heap'.frames))]_vars

\* make(5) has returned, addFive(3) has yielded 8.
ClosureCaptureWitness ==
    /\ pc = "returned"
    /\ input_string = AddFiveSource(5, 3)
    /\ result = IntegerObject(8)
    /\ Len(heap.frames) = 3

RECURSIVE Factorial(_)
Factorial(n) == IF n = 0 THEN 1 ELSE n * Factorial(n - 1)

\* C6: a closure over the global frame sees the let that was executed last
\* before its call, a function calls one that was bound after it was made,
\* and fact(n) yields n!, whether n is read before or after the recursive
\* call.
LaterLetVisible ==
    /\ \A a, b \in IntValues :
          (pc = "returned" /\ input_string = LaterLetSource(a, b))
          => result = IntegerObject(b)
    /\ \A v \in IntValues :
          (pc = "returned" /\ input_string = ForwardSource(v))
          => result = IntegerObject(v)
    /\ \A n \in IntValues :
          (pc = "returned"
           /\ input_string \in {FactSource(n), FactRightSource(n)})
          => result = IntegerObject(Factorial(n))

\* fact(5) has yielded 120, n read after the recursive call.
LaterLetVisibleWitness ==
    /\ pc = "returned"
    /\ input_string = FactRightSource(5)
    /\ result = IntegerObject(120)

\* eval resumes with the right operand of an infix expression, `left` being
\* the value of the left one.
InfixResumes ==
    /\ Running
    /\ Top(stack).fn = "eval"
    /\ Top(stack).node.type = "InfixExpression"
    /\ Top(stack).at = "right"
    /\ ~is_error(ret)

\* The types of the runtime values, but Return and Error.
ValueTypes ==
    {"INTEGER", "BOOLEAN", "STRING", "LIST", "NULL", "FUNCTION", "BUILTIN"}

\* C7: an infix operator applied to two values of different types yields
\* the Error "type mismatch: LTYPE OP RTYPE".
TypeMismatch ==
    [][(/\ InfixResumes
        /\ Top(stack).v.t \in ValueTypes
        /\ ret.t \in ValueTypes
        /\ Top(stack).v.t # ret.t)
       => ret' = ErrorObject("type mismatch: " \o Top(stack).v.t \o " "
                             \o Join(Top(stack).node.operator) \o " " \o ret.t)
      ]_vars

\* C8: the division of an Integer by the Integer 0 yields the Error
\* "division by zero", and no exception.
DivisionByZero ==
    [][(/\ InfixResumes
        /\ Join(Top(stack).node.operator) = "/"
        /\ Top(stack).v.t = "INTEGER"
        /\ ret = IntegerObject(0))
       => (ret' = ErrorObject("division by zero") /\ pc' # "crashed")]_vars

\* apply_function is about to call the builtin `name` with n arguments.
BuiltinCalled(name, n) ==
    /\ Running
    /\ Top(stack).fn = "apply_function"
    /\ Top(stack).at = "start"
    /\ Top(stack).v.function = BuiltinObject(name)
    /\ Len(Top(stack).v.args) = n

\* C9: len, first, last and rest called with a number of arguments other
\* than 1, and push with a number other than 2, yield an Error and leave
\* every list, every frame and the output as they were.
WrongArgumentCount ==
    [][(\E n \in 0 .. MaxArgs + 1 :
          \/ n # 1 /\ \E name \in {"len", "first", "last", "rest"} :
                         BuiltinCalled(name, n)
          \/ n # 2 /\ BuiltinCalled("push", n))
       => (ret'.t = "ERROR" /\ heap' = heap)]_vars

\* push(a, a, "s") has yielded its Error and the list a is as it was.
WrongArgumentCountWitness ==
    /\ pc = "returned"
    /\ input_string = BuiltinCallSource(
        <<"p", "u", "s", "h">>, <<<<"a">>, <<"a">>, <<"\"", "s", "\"">>>>)
    /\ result = ErrorObject("Builtin function push expected two arguments")
    /\ heap.lists = <<<<IntegerObject(1)>>>>

-----------------------------------------------------------------------------
(* Properties of the parser *)

\* No string literal of the text holds a parenthesis: text[i] is inside a
\* string literal when the number of quotes before it is odd.
NoParenthesisInString(text) ==
    \A i \in DOMAIN text :
        text[i] \in {"(", ")"}
        => Cardinality({j \in 1 .. i : text[j] = "\""}) % 2 = 0

\* C10: when a program without parenthesis in a string literal was parsed
\* without error and printed, the parser returns from the printed text, it
\* records no error, and the tree prints as the text it was parsed from.
RoundTrip ==
    (/\ pc \in {"reparse", "reparsed", "hung"}
     /\ printed # <<>>
     /\ NoParenthesisInString(input_string))
    => (/\ pc # "hung"
        /\ pc = "reparsed" => (parser.errors = <<>> /\ Str(program) = printed))

\* C11: parse_program terminates on every token stream that ends in EOF,
\* well formed or not: the parser never loops forever, and when it has
\* returned its token is EOF and the program is a Program.
ParserTerminates ==
    /\ pc # "hung"
    /\ pc = "parsed" => (/\ cur_token_is(parser, "EOF")
                         /\ program.type = "Program")

-----------------------------------------------------------------------------
(* Properties of the driver *)

\* C12: eval is called on a parsed program only when the parser recorded no
\* error: when it recorded one, the evaluator never runs, no name is bound
\* and puts prints nothing.
EvalOnlyWithoutErrors ==
    parser.errors # <<>>
    => (/\ pc # "eval"
        /\ stack = <<>>
        /\ heap.frames = NewHeap.frames
        /\ pc # "done" => heap.out = <<>>)

-----------------------------------------------------------------------------
(* The grouping of expressions *)

\* The tree of an expression written with every group in parentheses: a
\* call as (function call arguments), an index as (collection at index).
RECURSIVE Shape(_)
Shape(node) ==
    CASE node.type = "InfixExpression" ->
           <<"(">> \o Shape(node.left) \o <<" ">> \o node.operator \o <<" ">>
           \o Shape(node.right) \o <<")">>
      [] node.type = "PrefixExpression" ->
           <<"(">> \o node.operator \o Shape(node.right) \o <<")">>
      [] node.type = "CallExpression" ->
           <<"(">> \o Shape(node.function) \o <<" ", "c", "a", "l", "l", " ">>
           \o JoinWith(Comma, [k \in DOMAIN node.arguments.items |->
                                  Shape(node.arguments.items[k])])
           \o <<")">>
      [] node.type = "IndexExpression" ->
           <<"(">> \o Shape(node.collection) \o <<" ", "a", "t", " ">> \o
           Shape(node.idx)
           \o <<")">>
      [] OTHER -> node.token.literal

\* The rank of a binary operator in the precedence table of the language:
\* EQUALS < LESSGREATER < SUM < PRODUCT.
Rank(op) ==
    CASE op \in {<<"=", "=">>, <<"!", "=">>} -> 1
      [] op \in {<<"<">>, <<">">>, <<"<", "=">>, <<">", "=">>} -> 2
      [] op \in {<<"+">>, <<"-">>} -> 3
      [] op \in {<<"*">>, <<"/">>} -> 4

\* The first statement of the parsed program is the expression `shape`.
ParsedAs(shape) ==
    /\ parser.errors = <<>>
    /\ program.statements[1].type = "ExpressionStatement"
    /\ Shape(program.statements[1].expression) = shape

\* C13: the parser groups by the precedence table and groups operators of
\* equal precedence to the left: in `a op1 b op2 c` the second operator
\* takes b only when it ranks higher than the first; a prefix operator binds
\* tighter than every binary operator and looser than a call or an index; a
\* call or an index binds tighter than every binary operator, and calls and
\* indexes group to the left.
PrecedenceGrouping ==
    program.type = "Program"
    => /\ \A op1, op2 \in InfixOperators :
            input_string = TwoOperatorsSource(op1, op2)
            => ParsedAs(IF Rank(op2) > Rank(op1)
                        THEN
                            <<"(", "a", " ">> \o op1 \o <<" ", "(", "b", " ">>
                            \o op2 \o <<" ", "c", ")", ")">>
                        ELSE <<"(", "(", "a", " ">> \o op1 \o <<" ", "b", ")",
                             " ">> \o op2 \o <<" ", "c", ")">>)
       /\ \A pre \in PrefixOperators, op \in InfixOperators :
            input_string = PrefixThenInfixSource(pre, op)
            => ParsedAs(
                <<"(", "(">> \o pre \o <<"a", ")", " ">> \o op \o <<" ", "b",
                ")">>)
       /\ \A op \in InfixOperators :
            /\ input_string = InfixThenSuffixSource(op, CallSuffix)
               => ParsedAs(
                   <<"(", "a", " ">> \o op \o <<" ", "(", "f", " ", "c", "a",
                   "l", "l", " ", "1", ")", ")">>)
            /\ input_string = InfixThenSuffixSource(op, IndexSuffix)
               => ParsedAs(
                   <<"(", "a", " ">> \o op \o <<" ", "(", "b", " ", "a", "t",
                   " ", "1", ")", ")">>)
       /\ input_string = CallOfCall => ParsedAs(
           <<"(", "(", "f", " ", "c", "a", "l", "l", " ", "1", ")", " ", "c",
           "a", "l", "l", " ", "2", ")">>)
       /\ input_string = CallOfCallOfIndex
          => ParsedAs(
              <<"(", "(", "(", "f", " ", "c", "a", "l", "l", " ", "1", ")",
              " ", "c", "a", "l", "l", " ", "2", ")", " ", "a", "t", " ", "3",
              ")">>)
       /\ input_string = MinusIndex => ParsedAs(
           <<"(", "-", "(", "b", " ", "a", "t", " ", "1", ")", ")">>)
       /\ input_string = MinusCall => ParsedAs(
           <<"(", "-", "(", "f", " ", "c", "a", "l", "l", " ", "1", ")",
           ")">>)
       /\ input_string = NotCall => ParsedAs(
           <<"(", "!", "(", "f", " ", "c", "a", "l", "l", " ", "1", ")",
           ")">>)

\* a - b - c was parsed as ((a - b) - c).
PrecedenceGroupingWitness ==
    /\ pc = "parsed"
    /\ input_string = TwoOperatorsSource(<<"-">>, <<"-">>)
    /\ ParsedAs(
        <<"(", "(", "a", " ", "-", " ", "b", ")", " ", "-", " ", "c", ")">>)

-----------------------------------------------------------------------------
(* Indexing, calls, loops, names and lists *)

\* eval resumes with the value of the index of an index expression, the
\* collection being the list `collection` and the index an Integer.
IndexResumes ==
    /\ Running
    /\ Top(stack).fn = "eval"
    /\ Top(stack).node.type = "IndexExpression"
    /\ Top(stack).at = "idx"
    /\ Top(stack).v.t = "LIST"
    /\ ret.t = "INTEGER"

\* What L[I] yields for the list of elements L, in the words of the claim.
ElementOrError(elements, I) ==
    IF 0 <= I /\ I < Len(elements) THEN elements[I + 1]
    ELSE ErrorObject("Index " \o Join(IntText(I))
                     \o " out of bounds for collection of len "
                     \o Join(IntStr(Len(elements))))

\* The elements 7, 8, ... of the list literal of n elements
ListValue(n) == [k \in 1 .. n |-> IntegerObject(6 + k)]

\* C14: for a List of length N and an Integer index I, L[I] is the element
\* at position I when 0 <= I < N and the Error "Index I out of bounds for
\* collection of len N" for every other I, negative ones included, and the
\* lists are unchanged: in the step that indexes, and in the result of
\* `let a = [7, 8, ...]; a[I]; a`, which is the Error or else the list a
\* with its elements as written.
IndexInBounds ==
    /\ [][IndexResumes
          => (/\ ret' = ElementOrError(heap.lists[Top(stack).v.ref], ret.value)
              /\ heap' = heap)]_vars
    /\ [](pc = "returned"
          => \A n \in 0 .. MaxListLen, i \in -2 .. MaxListLen + 1 :
                input_string = IndexSource(n, i)
                => (/\ heap.lists = <<ListValue(n)>>
                    /\ result = IF 0 <= i /\ i < n THEN ListObject(1)
                                ELSE ElementOrError(ListValue(n), i)))

\* a[-1] of a list of two elements has yielded the Error and the list is as
\* it was.
IndexInBoundsWitness ==
    /\ pc = "returned"
    /\ input_string = IndexSource(2, -1)
    /\ result = ErrorObject("Index -1 out of bounds for collection of len 2")
    /\ heap.lists = <<<<IntegerObject(7), IntegerObject(8)>>>>

\* apply_function is about to apply `function` to its arguments.
Applies ==
    /\ Running
    /\ Top(stack).fn = "apply_function"
    /\ Top(stack).at = "start"

\* C15: a Function value of N parameters called with M arguments, M other
\* than N, yields the Error "function requires N parameters, got M" in one
\* step that binds nothing and evaluates nothing of the body; a value that
\* is neither Function nor Builtin, called, yields the Error "not a
\* function: TYPE".  The function f of the programs prints 9 in its body:
\* nothing is printed when its call yields the Error.
WrongCall ==
    /\ [][Applies
          => LET function == Top(stack).v.function
                 M == Len(Top(stack).v.args)
             IN  /\ (/\ function.t = "FUNCTION"
                     /\ ~IsNone(function.parameters)
                     /\ M # Len(function.parameters.items))
                    => (/\ ret' = ErrorObject(
                                    "function requires "
                                    \o Join(IntStr(Len(function.parameters.items)))
                                    \o " parameters, got " \o Join(IntStr(M)))
                        /\ heap' = heap
                        /\ stack' = Pop(stack))
                 /\ function.t \in ValueTypes \ {"FUNCTION", "BUILTIN"}
                    => (/\ ret' = ErrorObject("not a function: " \o function.t)
                        /\ heap' = heap
                        /\ stack' = Pop(stack))
                 /\ function.t \notin {"FUNCTION", "BUILTIN"}
                    => ret'.t = "ERROR"]_vars
    /\ [](pc = "returned"
          => \A n, m \in 0 .. MaxArgs :
                (input_string = CallCountSource(n, m) /\ n # m)
                => (result.t = "ERROR" /\ heap.out = <<>>))

\* f of one parameter was called with two arguments: the Error, and nothing
\* printed.
WrongCallWitness ==
    /\ pc = "returned"
    /\ input_string = CallCountSource(1, 2)
    /\ result = ErrorObject("function requires 1 parameters, got 2")
    /\ heap.out = <<>>

\* eval_for_statement resumes with the value of its condition, which is
\* truthy.
ConditionHolds ==
    /\ Running
    /\ Top(stack).fn = "eval_for_statement"
    /\ Top(stack).at \in {"condition", "while"}
    /\ ~is_error(ret)
    /\ is_truthy(ret)

\* What `let t = func(i) { puts(i); i < k }; for (i = 0; t(i); let i = i + 1)
\* { puts(9) }` prints when the body runs once after each truthy condition:
\* 0, 9, 1, 9, ..., k.
ConditionThenBody(k) ==
    [j \in 1 .. 2 * k + 1 |->
        IF j % 2 = 1 THEN Join(IntStr((j - 1) \div 2)) ELSE "9"]

\* C16: a for statement repeats condition, body, update rule in that order:
\* every evaluation of the condition that is truthy is followed by a run of
\* the body, so that a condition that prints the counter and a body that
\* prints 9 print 0, 9, 1, 9, ..., and the product loop over 1..5 leaves 120.
ForOrder ==
    /\ [][(ConditionHolds /\ heap.fuel > 0)
          => Top(stack').fn = "eval_block_statement"]_vars
    /\ [](pc = "returned"
          => /\ \A k \in 0 .. MaxInt :
                  input_string = ForConditionSource(k)
                  => heap.out = ConditionThenBody(k)
             /\ input_string = ProductLoop => result = IntegerObject(120))

\* The binding of `name` in the nearest frame that binds it, from the frame
\* env along the outer chain.
RECURSIVE NearestBinding(_, _, _)
NearestBinding(frames, env, name) ==
    LET store == frames[env].store
    IN  IF \E i \in DOMAIN store : store[i][1] = name
        THEN [bound |-> TRUE,
              value |-> store[CHOOSE i \in DOMAIN store : store[i][1] = name][2]]
        ELSE IF frames[env].outer # 0
        THEN NearestBinding(frames, frames[env].outer, name)
        ELSE [bound |-> FALSE]

\* C17: an identifier evaluates to the value bound to its name in the
\* nearest frame of the outer chain that binds it; to the builtin of that
\* name only when no frame binds it; and to the Error "identifier not
\* found: NAME" when there is neither.
IdentifierResolution ==
    [][(/\ Running
        /\ Top(stack).fn = "eval"
        /\ Top(stack).node.type = "Identifier")
       => LET name == Top(stack).node.value
              binding == NearestBinding(heap.frames, Top(stack).env, name)
          IN  ret' = IF binding.bound THEN binding.value
                     ELSE IF name \in BuiltinNames
                     THEN BuiltinObject(Join(name))
                     ELSE ErrorObject("identifier not found: " \o Join(name))
      ]_vars

\* C18: push(v, L) appends v to the list object L itself and returns that
\* same object, with every other list and every frame as it was; the step
\* of a let statement and the step that binds the arguments of a call leave
\* every list as it is; so that a list pushed through a second name, through
\* a parameter, through a closure, or while it is an element of another
\* list, is the one list that the first name reads, one element longer.
PushInPlace ==
    /\ [][/\ (BuiltinCalled("push", 2) /\ Top(stack).v.args[2].t = "LIST")
             => LET v == Top(stack).v.args[1]
                    L == Top(stack).v.args[2]
                IN  /\ ret' = L
                    /\ heap'.lists = [heap.lists EXCEPT ![L.ref] = Append(@, v)]
                    /\ heap'.frames = heap.frames
          /\ (/\ Running
              /\ \/ Top(stack).fn = "eval" /\ Top(stack).node.type = "LetStatement"
                 \/ Applies /\ Top(stack).v.function.t = "FUNCTION")
             => heap'.lists = heap.lists]_vars
    /\ [](pc = "returned"
          => /\ input_string \in {PushAlias, PushArgument}
                => (/\ result = ListObject(1)
                    /\ heap.lists = <<<<IntegerObject(1), IntegerObject(2)>>>>)
             /\ input_string = PushClosure
                => (/\ result = ListObject(1)
                    /\ heap.lists = <<<<IntegerObject(1), IntegerObject(3),
                                        IntegerObject(4)>>>>)
             /\ input_string = PushNested
                => (/\ result = ListObject(1)
                    /\ heap.lists = <<<<IntegerObject(1), IntegerObject(2)>>,
                                      <<ListObject(1)>>>>))

\* The list that g pushed 3 to and returned was pushed 4 through b: a, b
\* and the closure of g read the one list [1, 3, 4].
PushInPlaceWitness ==
    /\ pc = "returned"
    /\ input_string = PushClosure
    /\ result = ListObject(1)
    /\ heap.lists = <<<<IntegerObject(1), IntegerObject(3), IntegerObject(4)>>>>
    /\ EnvGet(heap.frames, 1, <<"a">>) = ListObject(1)
    /\ EnvGet(heap.frames, 1, <<"b">>) = ListObject(1)

\* C19: every call of the evaluator returns a value of the runtime value
\* union, and so does eval(Program); a let statement, a for statement and a
\* call of puts yield NULL, and `let x = puts(1); x` yields NULL.
NullForNoValue ==
    /\ [][(Running /\ Len(stack') < Len(stack) /\ Top(stack).fn = "eval")
          => ret'.t # "None"]_vars
    /\ [](pc = "returned"
          => /\ result.t # "None"
             /\ input_string \in NullSources => result = NULL)

\* C20: a return statement executed in the body of a for statement ends the
\* loop at once, and the Return goes to the enclosing call or to the
\* program: when eval_for_statement resumes with a Return value from its
\* body it returns it, `func() { for (i = 0; i < 3; let i = i + 1) { return i; }
\* 9 }()` yields 0, and the loop at the top level that prints i and returns
\* i yields 0 after it printed 0 alone.
ReturnEndsLoop ==
    /\ [][(/\ Running
           /\ Top(stack).fn = "eval_for_statement"
           /\ Top(stack).at = "evaluated"
           /\ IsReturn(ret))
          => (ret' = ret /\ stack' = Pop(stack))]_vars
    /\ [](pc = "returned"
          => /\ input_string = ReturnInLoop => result = IntegerObject(0)
             /\ input_string = ReturnInTopLoop
                => (result = IntegerObject(0) /\ heap.out = <<"0">>))

\* eval_for_statement resumes with the value of its condition, an Error.
ConditionFails ==
    /\ Running
    /\ Top(stack).fn = "eval_for_statement"
    /\ Top(stack).at \in {"condition", "while"}
    /\ is_error(ret)

\* C21: when the condition of a for statement evaluates to an Error, at the
\* first iteration or at a later one, the for statement ends in that step
\* with that Error as its value and the body is not run again; so a program
\* whose loop condition fails ends with an Error and does not diverge.
ForConditionError ==
    /\ [][ConditionFails
          => /\ stack' = Pop(stack)
             /\ ret' = ret]_vars
    /\ [](input_string \in ForErrorSources /\ pc \in {"returned", "diverged"}
          => pc = "returned" /\ is_error(result))

\* eval resumes in a CallExpression at `at`.
CallExpressionAt(at) ==
    /\ Running
    /\ Top(stack).fn = "eval"
    /\ Top(stack).node.type = "CallExpression"
    /\ Top(stack).at = at

\* eval_expressions resumes with the value of one expression.
ExpressionsResume ==
    /\ Running
    /\ Top(stack).fn = "eval_expressions"
    /\ Top(stack).at = "evaluated"

\* What puts(1), ..., puts(n) print.
PrintedUpTo(n) == [j \in 1 .. n |-> Join(IntStr(j))]

\* The arguments puts(1), ..., puts(n) with y at position k have an Error.
HasError(n, k) == k \in 1 .. n

\* C22: a call evaluates its callee first and then its arguments from left
\* to right.  An Error as the callee's value, or as the value of an
\* argument, is the call's value in that step: no argument to the right is
\* evaluated and nothing is applied.  So f(puts(1), ..., y, ..., puts(n))
\* with the unbound y at position k prints 1 .. k-1 and nothing else, for a
\* function f and for the builtin puts; without y it prints 1 .. n in
\* that order before the body of f prints 9.
ArgumentOrder ==
    /\ [][/\ CallExpressionAt("start")
             => Top(stack').node = Top(stack).node.function
          /\ (CallExpressionAt("function") /\ ~is_error(ret))
             => /\ Top(stack').fn = "eval_expressions"
                /\ Top(stack').node = Top(stack).node.arguments
          /\ (CallExpressionAt("function") /\ is_error(ret))
             => (stack' = Pop(stack) /\ ret' = ret /\ heap' = heap)
          /\ (ExpressionsResume /\ is_error(ret))
             => (stack' = Pop(stack) /\ ret' = ret /\ heap' = heap)
          /\ (CallExpressionAt("args") /\ is_error(ret))
             => (stack' = Pop(stack) /\ ret' = ret /\ heap' = heap)
          /\ (CallExpressionAt("args") /\ ~is_error(ret))
             => /\ Top(stack').fn = "apply_function"
                /\ Len(Top(stack').v.args) = Len(Top(stack).node.arguments.items)
         ]_vars
    /\ [](pc = "returned"
          => \A n \in 1 .. MaxArgs, k \in 0 .. MaxArgs :
               /\ (input_string = CallErrorSource(n, k) /\ HasError(n, k))
                  => /\ heap.out = PrintedUpTo(k - 1)
                     /\ result = ErrorObject("identifier not found: y")
               /\ (input_string = CallErrorSource(n, k) /\ ~HasError(n, k))
                  => /\ heap.out = Append(PrintedUpTo(n), "9")
                     /\ result = IntegerObject(4)
               /\ (input_string = BuiltinErrorSource(n, k) /\ HasError(n, k))
                  => /\ heap.out = PrintedUpTo(k - 1)
                     /\ result = ErrorObject("identifier not found: y")
               /\ (input_string = BuiltinErrorSource(n, k) /\ ~HasError(n, k))
                  => /\ SubSeq(heap.out, 1, n) = PrintedUpTo(n)
                     /\ Len(heap.out) > n
                     /\ result = IntegerObject(4))

\* f(puts(1), y, puts(3)) has printed 1 only and ended with the Error of y.
ArgumentOrderWitness ==
    /\ pc = "returned"
    /\ input_string = CallErrorSource(MaxArgs, 2)
    /\ heap.out = <<"1">>
    /\ result = ErrorObject("identifier not found: y")

\* eval resumes in a ListLiteral with the value of eval_expressions, an Error.
ListElementFails ==
    /\ Running
    /\ Top(stack).fn = "eval"
    /\ Top(stack).node.type = "ListLiteral"
    /\ Top(stack).at = "elements"
    /\ is_error(ret)

\* C23: when an element of a list literal evaluates to an Error, the list
\* literal evaluates to that Error in the same step, whatever the length of
\* the literal and the position of the element; no evaluation of a program
\* made of such a literal ends in an exception.
ListElementError ==
    /\ [][ListElementFails => (stack' = Pop(stack) /\ ret' = ret)]_vars
    /\ [](input_string \in ListErrorSources
          => /\ pc # "crashed"
             /\ pc = "returned" => is_error(result))

\* eval_infix_expression is about to apply == or != to two values of one
\* type, other than Integer and String.
IdentityCompared ==
    /\ InfixResumes
    /\ Join(Top(stack).node.operator) \in {"==", "!="}
    /\ Top(stack).v.t \in ValueTypes \ {"INTEGER", "STRING"}
    /\ ret.t = Top(stack).v.t

\* C24: == and != on two operands of one type that is neither Integer nor
\* String yield a value and no exception: for two Booleans and for two
\* Nulls the Boolean that tells whether the operands are the same
\* singleton, for two Lists, Functions or Builtins a Boolean or an Error.
IdentityEquality ==
    [][IdentityCompared
       => /\ pc' # "crashed"
          /\ ret'.t \in {"BOOLEAN", "ERROR"}
          /\ Top(stack).v.t \in {"BOOLEAN", "NULL"}
             => ret' = native_bool_to_boolean_object(
                           (Top(stack).v = ret)
                           <=> (Join(Top(stack).node.operator) = "=="))
      ]_vars

\* eval resumes in a let statement with the value to bind.
LetResumes ==
    /\ Running
    /\ Top(stack).fn = "eval"
    /\ Top(stack).node.type = "LetStatement"
    /\ Top(stack).at = "value"
    /\ ~is_error(ret)

\* The calls of functions whose body is being evaluated.
OpenCalls ==
    {j \in 1 .. Len(stack) - 1 :
        stack[j].fn = "apply_function" /\ stack[j].at = "evaluated"}

\* The frame of the innermost call being evaluated, the global frame when
\* there is none.
FrameOfCall ==
    IF OpenCalls = {} THEN 1
    ELSE stack[(CHOOSE j \in OpenCalls : \A i \in OpenCalls : i <= j) + 1].env

\* C25: a let statement binds its name in the frame of the innermost call
\* being evaluated and changes no other frame, at every nesting depth; a
\* binding of the same name in the captured environment or in an outer
\* frame has its value after the call, so that x is still 1 after calls
\* whose bodies execute let x = 2 and let x = 3.
LetBindsInCallFrame ==
    /\ [][LetResumes
          => /\ Top(stack).env = FrameOfCall
             /\ Len(heap'.frames) = Len(heap.frames)
             /\ \A e \in DOMAIN heap.frames :
                   e # FrameOfCall => heap'.frames[e] = heap.frames[e]
             /\ StoreGet(heap'.frames[FrameOfCall].store,
                         Top(stack).node.name.value) = ret]_vars
    /\ [](pc = "returned"
          => /\ input_string = LetInCall
                => (result = IntegerObject(1) /\ heap.out = <<"2">>)
             /\ input_string = LetInNestedCall
                => (result = IntegerObject(1) /\ heap.out = <<"3", "2">>)
             /\ input_string = LetInClosure
                => (result = IntegerObject(1) /\ heap.out = <<"2">>)
             /\ input_string = LetOverParameter
                => (result = IntegerObject(1) /\ heap.out = <<"2">>))

\* After f, whose body executes let x = 2 and calls g, whose body executes
\* let x = 3, the global x is 1, f's frame binds x to 2 and g's binds it to 3.
LetBindsInCallFrameWitness ==
    /\ pc = "returned"
    /\ input_string = LetInNestedCall
    /\ result = IntegerObject(1)
    /\ Len(heap.frames) = 3
    /\ StoreGet(heap.frames[1].store, <<"x">>) = IntegerObject(1)
    /\ StoreGet(heap.frames[2].store, <<"x">>) = IntegerObject(2)
    /\ StoreGet(heap.frames[3].store, <<"x">>) = IntegerObject(3)

\* C26: `return;` and `return` at the end of the input parse with no error
\* recorded, and the evaluation of the program ends with Null, the
\* returned value.
BareReturn ==
    input_string \in {ReturnSemicolon, ReturnAlone}
    => /\ pc \notin {"parse", "hung"} => parser.errors = <<>>
       /\ pc = "returned" => result = NULL
       /\ pc # "crashed"

\* parse_function_parameters is about to make a parameter of the current
\* token.
ParameterParsed ==
    /\ pc = "parse"
    /\ parser.stack # <<>>
    /\ Top(parser.stack).fn = "parse_function_parameters"
    /\ Top(parser.stack).at = "identifier"

\* The function literals that are expression statements of the program.
FunctionStatements ==
    {program.statements[i].expression : i \in
        {j \in DOMAIN program.statements :
            /\ program.statements[j].type = "ExpressionStatement"
            /\ ~IsNone(program.statements[j].expression)
            /\ program.statements[j].expression.type = "FunctionLiteral"}}

\* C27: a token that is no identifier, in the position of a parameter,
\* records a parse error; so when the program is parsed with no error
\* recorded, every parameter of a function literal is an Identifier made of
\* an identifier token.
IdentifierParameters ==
    /\ [][(ParameterParsed /\ ~cur_token_is(parser, "ID"))
          => Len(parser'.errors) > Len(parser.errors)]_vars
    /\ [](pc = "parsed" /\ parser.errors = <<>>
          => \A function \in FunctionStatements :
                ~IsNone(function.parameters)
                => \A i \in DOMAIN function.parameters.items :
                      /\ function.parameters.items[i].type = "Identifier"
                      /\ function.parameters.items[i].token.token_type = "ID")

\* What the program of one statement `base` is printed as.
PrintedStatement(base) ==
    IF base[Len(base)] = ";" THEN base ELSE base \o <<";">>

\* C28: a line comment is ignored by the parser: a statement followed by a
\* comment parses with no error recorded to the program of that statement
\* alone, and a comment alone to the empty program.
CommentIgnored ==
    pc = "parsed"
    => /\ \A base \in Commented :
             input_string = base \o CommentText
             => /\ parser.errors = <<>>
                /\ Len(program.statements) = 1
                /\ Str(program) = PrintedStatement(base)
       /\ input_string = CommentAlone
          => /\ parser.errors = <<>>
             /\ program.statements = <<>>

\* C29: no frame ever binds a name to a Return value or to an Error value.
PlainBindings ==
    \A e \in DOMAIN heap.frames :
       \A i \in DOMAIN heap.frames[e].store :
          heap.frames[e].store[i][2].t \notin {"RETURN_VALUE", "ERROR"}

\* C30: only the call of a function creates a frame; every other step that
\* starts an evaluation, the block of an if or of a for included, passes on
\* the frame it runs in.  So a let in an if-branch, an else-branch or a
\* for-body binds in the top-level frame and is visible after the block,
\* or, inside a function body, in the frame of the call and not outside.
BlocksShareFrame ==
    /\ [][/\ Len(heap'.frames) >= Len(heap.frames)
          /\ Len(heap'.frames) > Len(heap.frames)
             => (Applies /\ Top(stack).v.function.t = "FUNCTION")
          /\ (Running /\ Len(stack') = Len(stack) + 1
              /\ Top(stack).fn # "apply_function")
             => Top(stack').env = Top(stack).env]_vars
    /\ [](pc = "returned"
          => /\ input_string = LetInIf => result = IntegerObject(1)
             /\ input_string = LetInElse => result = IntegerObject(2)
             /\ input_string = LetInFor => result = IntegerObject(5)
             /\ input_string = LetAgainInIf => result = IntegerObject(2)
             /\ input_string \in {LetInIf, LetInElse, LetInFor, LetAgainInIf}
                => Len(heap.frames) = 1
             /\ input_string = LetInIfInCall
                => /\ heap.out = <<"1">>
                   /\ result = ErrorObject("identifier not found: x")
                   /\ Len(heap.frames) = 2
             /\ input_string = LetInForInCall
                => /\ heap.out = <<"5">>
                   /\ result = ErrorObject("identifier not found: y")
                   /\ Len(heap.frames) = 2)

\* The let in the for-body at top level has bound y to 5 in the only frame,
\* which also binds the counter, and y is read after the loop.
BlocksShareFrameWitness ==
    /\ pc = "returned"
    /\ input_string = LetInFor
    /\ Len(heap.frames) = 1
    /\ StoreGet(heap.frames[1].store, <<"y">>) = IntegerObject(5)
    /\ StoreGet(heap.frames[1].store, <<"i">>) = IntegerObject(1)
    /\ result = IntegerObject(5)


=============================================================================
